---- MODULE Spec2Model ----
(***************************************************************************)
(* png-container: chunk-level reader for PNG / APNG streams.               *)
(*                                                                         *)
(* The stream is a sequence of bytes (0..255).  The reader (PngReader) is  *)
(* a cursor plus the metadata it collects while scanning; PngChunkRef is   *)
(* {position, length, chunktype}; read_chunk decodes one chunk and checks  *)
(* its CRC.  32-bit values that may exceed 2^31 (CRC values) are kept as   *)
(* 4-byte big-endian sequences.                                            *)
(***************************************************************************)
EXTENDS Integers, Sequences, FiniteSets, TLC

(***************************************************************************)
(* Big-endian integers and byte slices (a byte is 0..255)                  *)
(***************************************************************************)
\* u32::from_be_bytes on a 4-byte sequence
U32FromBe(b) == ((b[1] * 256 + b[2]) * 256 + b[3]) * 256 + b[4]

\* u32::to_be_bytes
U32ToBe(n) == << (n \div 16777216) % 256, (n \div 65536) % 256, (n \div 256) % 256, n % 256 >>

\* u16::from_be_bytes on a 2-byte sequence
U16FromBe(b) == b[1] * 256 + b[2]

\* the bytes s[from+1 .. from+n] (0-based offset `from`), as a slice &s[from..from+n]
Slice(s, from, n) == SubSeq(s, from + 1, from + n)

RECURSIVE Flatten(_)
Flatten(ss) == IF ss = << >> THEN << >> ELSE Head(ss) \o Flatten(Tail(ss))

Min(a, b) == IF a < b THEN a ELSE b

(***************************************************************************)
(* CRC engine (crate::crc): CRC-32, IEEE/zlib polynomial, reflected.       *)
(* The register is a 4-byte big-endian sequence.                           *)
(***************************************************************************)
RECURSIVE XorBits(_, _)
XorBits(a, b) ==
    IF a = 0 THEN b
    ELSE IF b = 0 THEN a
    ELSE ((a + b) % 2) + 2 * XorBits(a \div 2, b \div 2)

\* a ^ b for bytes, tabulated: row a + 1, column b + 1
XorTable ==
    SubSeq([a \in 1..256 |-> SubSeq([b \in 1..256 |-> XorBits(a - 1, b - 1)], 1, 256)], 1, 256)

Xor8(a, b) == XorTable[a + 1][b + 1]

Xor32(x, y) == << Xor8(x[1], y[1]), Xor8(x[2], y[2]), Xor8(x[3], y[3]), Xor8(x[4], y[4]) >>

\* logical shift right by one bit of a 32-bit register
Shr1(x) == << x[1] \div 2,
              (x[1] % 2) * 128 + x[2] \div 2,
              (x[2] % 2) * 128 + x[3] \div 2,
              (x[3] % 2) * 128 + x[4] \div 2 >>

\* 0xEDB88320
CrcPoly == << 237, 184, 131, 32 >>

AllOnes == << 255, 255, 255, 255 >>

RECURSIVE CrcRounds(_, _)
CrcRounds(c, k) ==
    IF k = 0 THEN c
    ELSE CrcRounds(IF c[4] % 2 = 1 THEN Xor32(CrcPoly, Shr1(c)) ELSE Shr1(c), k - 1)

\* the 256-entry table, entry n at index n + 1
CrcTable == SubSeq([k \in 1..256 |-> CrcRounds(<< 0, 0, 0, k - 1 >>, 8)], 1, 256)

\* CRC::new()
CrcNew == << 0, 0, 0, 0 >>

\* one byte through the table: table[(c ^ byte) & 0xff] ^ (c >> 8)
CrcStep(c, byte) == Xor32(CrcTable[Xor8(c[4], byte) + 1], << 0, c[1], c[2], c[3] >>)

\* bytes[i..] folded into the register c (the register is bound as a value v before the
\* next step uses it)
RECURSIVE CrcFold(_, _, _)
CrcFold(c, bytes, i) ==
    IF i > Len(bytes) THEN c
    ELSE CHOOSE r \in {CrcFold(CrcStep(v, bytes[i]), bytes, i + 1) : v \in {c}} : TRUE

\* CRC::consume(bytes)
CrcConsume(crc, bytes) == Xor32(CrcFold(Xor32(crc, AllOnes), bytes, 1), AllOnes)

\* CRC::value(), as the 4 big-endian bytes of the u32
CrcValue(crc) == crc

(***************************************************************************)
(* Chunk type codes ([u8; 4])                                              *)
(***************************************************************************)
IHDR == << 73, 72, 68, 82 >>
PLTE == << 80, 76, 84, 69 >>
IDAT == << 73, 68, 65, 84 >>
IEND == << 73, 69, 78, 68 >>
tRNS == << 116, 82, 78, 83 >>
gAMA == << 103, 65, 77, 65 >>
sBIT == << 115, 66, 73, 84 >>
tEXt == << 116, 69, 88, 116 >>
bKGD == << 98, 75, 71, 68 >>
acTL == << 97, 99, 84, 76 >>
aCTL == << 97, 67, 84, 76 >>
fcTL == << 102, 99, 84, 76 >>
fdAT == << 102, 100, 65, 84 >>
JHDR == << 74, 72, 68, 82 >>
JDAT == << 74, 68, 65, 84 >>
JDAA == << 74, 68, 65, 65 >>
JSEP == << 74, 83, 69, 80 >>
\* a private ancillary type no decoder is registered for
prVt == << 112, 114, 86, 116 >>

(***************************************************************************)
(* Option<T> is a sequence of length 0 (None) or 1 (Some)                  *)
(***************************************************************************)
None == << >>
Some(v) == << v >>
IsSome(o) == o # << >>

(***************************************************************************)
(* types.rs: the u8 -> enum conversions (TryFromPrimitive)                 *)
(***************************************************************************)
Greyscale == 0
TrueColour == 2
IndexedColour == 3
GreyscaleAlpha == 4
TrueColourAlpha == 6

PngColourTypeOk(b) == b \in {Greyscale, TrueColour, IndexedColour, GreyscaleAlpha, TrueColourAlpha}
PngCompressionMethodOk(b) == b = 0
PngFilterMethodOk(b) == b = 0
PngInterlaceMethodOk(b) == b \in {0, 1}
ApngDisposalOperatorOk(b) == b \in {0, 1, 2}
ApngBlendOperatorOk(b) == b \in {0, 1}

(***************************************************************************)
(* PngChunkRef                                                             *)
(***************************************************************************)
ChunkRef(position, length, chunktype) ==
    [position |-> position, length |-> length, chunktype |-> chunktype]

\* bytes of s from 0-based offset `from`, at most n of them (a read that may come up short)
Avail(s, from, n) ==
    IF from >= Len(s) THEN 0 ELSE Min(n, Len(s) - from)

\* PngChunkRef::from_stream at stream position pos: 4-byte length, 4-byte type
FromStream(s, pos) ==
    IF Avail(s, pos, 8) < 8
    THEN [kind |-> "Io", ref |-> None]
    ELSE [kind |-> "Ok",
          ref  |-> Some(ChunkRef(pos, U32FromBe(Slice(s, pos, 4)), Slice(s, pos + 4, 4)))]

\* find_null: index of the first 0 byte, or the length
RECURSIVE FindNullFrom(_, _)
FindNullFrom(bytes, i) ==
    IF i > Len(bytes) THEN Len(bytes)
    ELSE IF bytes[i] = 0 THEN i - 1
    ELSE FindNullFrom(bytes, i + 1)

find_null(bytes) == FindNullFrom(bytes, 1)

(***************************************************************************)
(* PngChunkRef::read_chunk (chunks.rs).  A result is                       *)
(*   [kind, value, pos]: kind "Ok" or the error; value the decoded payload *)
(*   (Some) on success; pos the stream position the call leaves behind.    *)
(* Error kinds: "Io" (short read), "UnsetIhdr" (no IHDR context),          *)
(* "InvalidValue" (a field or length the type forbids), "Unhandled" (no    *)
(* decoder for the type code), "CrcMismatch", "Panic" (slice out of range).*)
(***************************************************************************)
Err(kind, pos) == [kind |-> kind, value |-> None, pos |-> pos]
Ok(value, pos) == [kind |-> "Ok", value |-> Some(value), pos |-> pos]

DecodedTypes == {IHDR, PLTE, IDAT, IEND, tRNS, gAMA, sBIT, tEXt, bKGD, acTL, fcTL, fdAT,
                 JDAT, JDAA, JSEP}

\* the `ihdr.is_none()` gate of the tRNS, sBIT and bKGD arms
ContextMissing_Default(ihdr) == FALSE

ContextMissing(ihdr) == ~IsSome(ihdr)

\* colour type the context-dependent arms branch on
ContextColourType(ihdr) == IF IsSome(ihdr) THEN ihdr[1].colour_type ELSE Greyscale

\* How many payload bytes the arm of r.chunktype reads through `chunkstream`,
\* or the error it returns before reading anything.
PayloadWant(r, ihdr) ==
    LET t  == r.chunktype
        ct == ContextColourType(ihdr)
        W(n) == [kind |-> "Ok", n |-> n]
        E(k) == [kind |-> k, n |-> 0]
    IN  CASE t = IHDR -> W(13)
          [] t = PLTE -> W((r.length \div 3) * 3)
          [] t = IDAT -> W(r.length)
          [] t = IEND -> W(0)
          [] t = tRNS ->
                IF ContextMissing(ihdr) THEN E("UnsetIhdr")
                ELSE CASE ct = Greyscale -> W(2)
                       [] ct = TrueColour -> W(6)
                       [] ct = IndexedColour -> W(r.length)
                       [] OTHER -> E("InvalidValue")
          [] t = gAMA -> W(4)
          [] t = sBIT ->
                IF ContextMissing(ihdr) THEN E("UnsetIhdr")
                ELSE CASE ct = Greyscale -> W(1)
                       [] ct \in {TrueColour, IndexedColour} -> W(3)
                       [] ct = GreyscaleAlpha -> W(2)
                       [] OTHER -> W(4)
          [] t = tEXt -> W(r.length)
          [] t = bKGD -> IF ContextMissing(ihdr) THEN E("UnsetIhdr") ELSE W(r.length)
          [] t = acTL -> W(8)
          [] t = fcTL -> W(26)
          [] t = fdAT -> W(r.length)
          [] t \in {JDAT, JDAA} -> W(r.length)
          [] t = JSEP -> W(0)
          [] OTHER -> E("Unhandled")

\* The payload value the arm builds from the bytes it read, or its error.
ParsePayload(r, data, ihdr) ==
    LET t  == r.chunktype
        ct == ContextColourType(ihdr)
        V(v) == [kind |-> "Ok", value |-> Some(v)]
        E(k) == [kind |-> k, value |-> None]
    IN  CASE t = IHDR ->
                IF /\ PngColourTypeOk(data[10])
                   /\ PngCompressionMethodOk(data[11])
                   /\ PngFilterMethodOk(data[12])
                   /\ PngInterlaceMethodOk(data[13])
                THEN V([type |-> "Ihdr",
                        width |-> U32FromBe(Slice(data, 0, 4)),
                        height |-> U32FromBe(Slice(data, 4, 4)),
                        bit_depth |-> data[9],
                        colour_type |-> data[10],
                        compression_method |-> data[11],
                        filter_method |-> data[12],
                        interlace_method |-> data[13]])
                ELSE E("InvalidValue")
          [] t = PLTE -> V([type |-> "Plte", data |-> data])
          [] t = IDAT -> V([type |-> "Idat", data |-> data])
          [] t = IEND -> V([type |-> "Iend"])
          [] t = tRNS -> V([type |-> "Trns", colour_type |-> ct, data |-> data])
          [] t = gAMA -> V([type |-> "Gama", gamma |-> U32FromBe(data)])
          [] t = sBIT -> V([type |-> "Sbit", colour_type |-> ct, data |-> data])
          [] t = tEXt ->
                LET keyword_end == find_null(data)
                IN  IF keyword_end + 1 > Len(data) THEN E("Panic")
                    ELSE V([type |-> "Text",
                            keyword |-> Slice(data, 0, keyword_end),
                            string |-> Slice(data, keyword_end + 1,
                                             Len(data) - keyword_end - 1)])
          [] t = bKGD ->
                LET need == CASE ct \in {Greyscale, GreyscaleAlpha} -> 2
                              [] ct \in {TrueColour, TrueColourAlpha} -> 6
                              [] OTHER -> 1
                IN  IF r.length # need THEN E("InvalidValue")
                    ELSE V([type |-> "Bkgd", colour_type |-> ct, data |-> data])
          [] t = acTL -> V([type |-> "Actl",
                            num_frames |-> U32FromBe(Slice(data, 0, 4)),
                            num_plays |-> U32FromBe(Slice(data, 4, 4))])
          [] t = fcTL ->
                IF ApngDisposalOperatorOk(data[25]) /\ ApngBlendOperatorOk(data[25])
                THEN V([type |-> "Fctl",
                        sequence_number |-> U32FromBe(Slice(data, 0, 4)),
                        width |-> U32FromBe(Slice(data, 4, 4)),
                        height |-> U32FromBe(Slice(data, 8, 4)),
                        x_offset |-> U32FromBe(Slice(data, 12, 4)),
                        y_offset |-> U32FromBe(Slice(data, 16, 4)),
                        delay_num |-> U16FromBe(Slice(data, 20, 2)),
                        delay_den |-> U16FromBe(Slice(data, 22, 2)),
                        dispose_op |-> data[25],
                        blend_op |-> data[25]])
                ELSE E("InvalidValue")
          [] t = fdAT ->
                IF Len(data) < 4 THEN E("Panic")
                ELSE V([type |-> "Fdat",
                        sequence_number |-> U32FromBe(Slice(data, 0, 4)),
                        frame_data |-> Slice(data, 4, Len(data) - 4)])
          [] t = JDAT -> V([type |-> "Jdat", data |-> data])
          [] t = JDAA -> V([type |-> "Jdaa", data |-> data])
          [] OTHER -> V([type |-> "Jsep"])

\* the trailer comparison `crc != data_crc.value()`
CrcDiffers_Accept(trailer, crc) == FALSE

CrcDiffers(trailer, crc) == trailer # CrcValue(crc)

\* the trailer check, once the arm has returned `chunk` and left the stream at `after`
ReadTrailer(s, chunk, data_crc, after) ==
    IF chunk.kind # "Ok" THEN Err(chunk.kind, after)
    ELSE IF Avail(s, after, 4) < 4 THEN Err("Io", after + Avail(s, after, 4))
    ELSE IF CrcDiffers(Slice(s, after, 4), data_crc) THEN Err("CrcMismatch", after + 4)
    ELSE Ok(chunk.value[1], after + 4)

\* read_chunk checking the trailer of a chunk before the `_` arm reports its type
ReadPayload_TrailerFirst(s, r, ihdr, want, start, avail) ==
    IF /\ want.kind = "Unhandled"
       /\ Avail(s, start, r.length + 4) = r.length + 4
       /\ CrcDiffers(Slice(s, start + r.length, 4),
                     CrcConsume(CrcConsume(CrcNew, r.chunktype), Slice(s, start, r.length)))
    THEN Err("CrcMismatch", start + r.length + 4)
    ELSE IF want.kind # "Ok" THEN Err(want.kind, start)
    ELSE IF avail < want.n THEN Err("Io", start + avail)
    ELSE ReadTrailer(s, ParsePayload(r, Slice(s, start, want.n), ihdr),
                     CrcConsume(CrcConsume(CrcNew, r.chunktype), Slice(s, start, want.n)),
                     start + want.n)

\* the arm: it reads want.n bytes at `start` through chunkstream, which holds `avail`
ReadPayload(s, r, ihdr, want, start, avail) ==
    IF want.kind # "Ok" THEN Err(want.kind, start)
    ELSE IF avail < want.n THEN Err("Io", start + avail)
    ELSE ReadTrailer(s, ParsePayload(r, Slice(s, start, want.n), ihdr),
                     CrcConsume(CrcConsume(CrcNew, r.chunktype), Slice(s, start, want.n)),
                     start + want.n)

read_chunk(s, r, ihdr) ==
    ReadPayload(s, r, ihdr, PayloadWant(r, ihdr), r.position + 4 + 4,
                Avail(s, r.position + 4 + 4, r.length))

\* PngChunkRef::read_fctl_fdat_sequence_number: Some(u32), or the error
read_fctl_fdat_sequence_number(s, r) ==
    LET start == r.position
        avail == Avail(s, start, r.length)
    IN  IF r.chunktype \notin {fcTL, fdAT} THEN [kind |-> "NotFctlFdat", value |-> None]
        ELSE IF avail < 4 THEN [kind |-> "Io", value |-> None]
        ELSE [kind |-> "Ok", value |-> Some(U32FromBe(Slice(s, start, 4)))]

(***************************************************************************)
(* PngReader (reader.rs).  The reader is a record of the struct's fields   *)
(* (the stream's bytes are the variable `stream`; stream_pos is the        *)
(* position of the underlying stream).                                     *)
(***************************************************************************)
Png == "Png"
Apng == "Apng"

\* what PngReader::from_stream builds after the signature check
NewReader ==
    [filetype |-> Png, width |-> 0, height |-> 0, bit_depth |-> 0,
     colour_type |-> Greyscale, ihdr |-> None, next_chunk_pos |-> 8,
     in_header |-> TRUE, first_frame_is_static |-> FALSE, stream_pos |-> 8]

\* scan_next_chunk without the test of the JNG type codes
InvalidForPng_None(t) == FALSE

\* the chunk types PngReader::scan_next_chunk rejects
InvalidForPng(t) == t \in {JHDR, JDAT, JDAA, JSEP}

\* the type codes whose arm sets filetype to Apng without looking at in_header
ApngMarker(t) == t \in {aCTL, fdAT}

\* the IHDR arm of scan_next_chunk: decode at once, keep the fields
KeepIhdr(rd, r, got) ==
    IF got.kind # "Ok"
    THEN [rd |-> [rd EXCEPT !.stream_pos = got.pos], kind |-> got.kind, ref |-> None]
    ELSE [rd |-> [rd EXCEPT !.ihdr = got.value,
                            !.width = got.value[1].width,
                            !.height = got.value[1].height,
                            !.bit_depth = got.value[1].bit_depth,
                            !.colour_type = got.value[1].colour_type],
          kind |-> "Ok", ref |-> Some(r)]

ScanIhdr(s, rd, r) == KeepIhdr(rd, r, read_chunk(s, r, None))

\* PngReader::scan_next_chunk: [rd: the reader afterwards, kind, ref: Some(chunkref) on Ok]
scan_next_chunk(s, rd) ==
    LET fs == FromStream(s, rd.next_chunk_pos)
    IN  IF fs.kind # "Ok"
        THEN [rd |-> [rd EXCEPT !.stream_pos = rd.next_chunk_pos + Avail(s, rd.next_chunk_pos, 8)],
              kind |-> "Io", ref |-> None]
        ELSE
            LET r   == fs.ref[1]
                rd0 == [rd EXCEPT !.stream_pos = rd.next_chunk_pos + 8]
                rd1 == [rd0 EXCEPT !.next_chunk_pos = @ + 4 + 4 + r.length + 4]
            IN  IF InvalidForPng(r.chunktype)
                THEN [rd |-> rd0, kind |-> "InvalidChunkType", ref |-> None]
                ELSE CASE r.chunktype = IHDR -> ScanIhdr(s, rd1, r)
                       [] r.chunktype = IDAT ->
                            [rd |-> [rd1 EXCEPT !.in_header = FALSE],
                             kind |-> "Ok", ref |-> Some(r)]
                       [] ApngMarker(r.chunktype) ->
                            [rd |-> [rd1 EXCEPT !.filetype = Apng],
                             kind |-> "Ok", ref |-> Some(r)]
                       [] r.chunktype = fcTL ->
                            [rd |-> [rd1 EXCEPT !.filetype = Apng,
                                                !.first_frame_is_static =
                                                    (@ \/ rd1.in_header)],
                             kind |-> "Ok", ref |-> Some(r)]
                       [] OTHER -> [rd |-> rd1, kind |-> "Ok", ref |-> Some(r)]

(***************************************************************************)
(* The scan loops.  A result is [rd, kind, list, seen]: list is the Vec    *)
(* returned on Ok (empty on error: the Vec is dropped), seen every         *)
(* reference scan_next_chunk returned inside the call.                     *)
(***************************************************************************)
RECURSIVE ScanAllLoop(_, _, _)
\* scan_all_chunks with the `break` on IEND ahead of `chunks.push(chunkref)`
ScanAllStep_DropIend(s, sn, chunks) ==
    IF sn.kind # "Ok"
    THEN [rd |-> sn.rd, kind |-> sn.kind, list |-> << >>, seen |-> chunks]
    ELSE IF sn.ref[1].chunktype = IEND
    THEN [rd |-> sn.rd, kind |-> "Ok", list |-> chunks, seen |-> Append(chunks, sn.ref[1])]
    ELSE ScanAllLoop(s, sn.rd, Append(chunks, sn.ref[1]))

ScanAllStep(s, sn, chunks) ==
    IF sn.kind # "Ok"
    THEN [rd |-> sn.rd, kind |-> sn.kind, list |-> << >>, seen |-> chunks]
    ELSE IF sn.ref[1].chunktype = IEND
    THEN [rd |-> sn.rd, kind |-> "Ok", list |-> Append(chunks, sn.ref[1]),
          seen |-> Append(chunks, sn.ref[1])]
    ELSE ScanAllLoop(s, sn.rd, Append(chunks, sn.ref[1]))

ScanAllLoop(s, rd, chunks) == ScanAllStep(s, scan_next_chunk(s, rd), chunks)

scan_all_chunks(s, rd) == ScanAllLoop(s, rd, << >>)

RECURSIVE ScanHeaderLoop(_, _, _)
\* scan_header_chunks without `self.next_chunk_pos = chunkref.position`
ScanHeaderStep_NoRewind(s, sn, chunks) ==
    IF sn.kind # "Ok"
    THEN [rd |-> sn.rd, kind |-> sn.kind, list |-> << >>, seen |-> chunks]
    ELSE IF sn.ref[1].chunktype = IDAT
    THEN [rd |-> sn.rd, kind |-> "Ok", list |-> chunks, seen |-> Append(chunks, sn.ref[1])]
    ELSE ScanHeaderLoop(s, sn.rd, Append(chunks, sn.ref[1]))

ScanHeaderStep(s, sn, chunks) ==
    IF sn.kind # "Ok"
    THEN [rd |-> sn.rd, kind |-> sn.kind, list |-> << >>, seen |-> chunks]
    ELSE IF sn.ref[1].chunktype = IDAT
    THEN [rd |-> [sn.rd EXCEPT !.next_chunk_pos = sn.ref[1].position],
          kind |-> "Ok", list |-> chunks, seen |-> Append(chunks, sn.ref[1])]
    ELSE ScanHeaderLoop(s, sn.rd, Append(chunks, sn.ref[1]))

ScanHeaderLoop(s, rd, chunks) == ScanHeaderStep(s, scan_next_chunk(s, rd), chunks)

scan_header_chunks(s, rd) == ScanHeaderLoop(s, rd, << >>)

RECURSIVE ScanFilteredLoop(_, _, _, _, _)
\* scan_chunks_filtered without the `if test(chunkref.chunktype)`
ScanFilteredStep_NoTest(s, sn, test, chunks, seen) ==
    IF sn.kind # "Ok"
    THEN [rd |-> sn.rd, kind |-> sn.kind, list |-> << >>, seen |-> seen]
    ELSE IF sn.ref[1].chunktype = IEND
    THEN [rd |-> sn.rd, kind |-> "Ok", list |-> Append(chunks, sn.ref[1]),
          seen |-> Append(seen, sn.ref[1])]
    ELSE ScanFilteredLoop(s, sn.rd, test, Append(chunks, sn.ref[1]), Append(seen, sn.ref[1]))

ScanFilteredStep(s, sn, test, chunks, seen) ==
    IF sn.kind # "Ok"
    THEN [rd |-> sn.rd, kind |-> sn.kind, list |-> << >>, seen |-> seen]
    ELSE
        LET r    == sn.ref[1]
            next == IF r.chunktype \in test THEN Append(chunks, r) ELSE chunks
        IN  IF r.chunktype = IEND
            THEN [rd |-> sn.rd, kind |-> "Ok", list |-> next, seen |-> Append(seen, r)]
            ELSE ScanFilteredLoop(s, sn.rd, test, next, Append(seen, r))

ScanFilteredLoop(s, rd, test, chunks, seen) ==
    ScanFilteredStep(s, scan_next_chunk(s, rd), test, chunks, seen)

\* the closure `test` is the set of type codes it accepts
scan_chunks_filtered(s, rd, test) == ScanFilteredLoop(s, rd, test, << >>, << >>)

(***************************************************************************)
(* PngReader::apng_scan_frames.  Result [rd, kind, frames, seen]: frames   *)
(* is the Vec<ApngFrame> returned on Ok, each [fctl, dats].                *)
(***************************************************************************)
\* generated sequence number of the IDAT at `position` (idat_seq_nums), None if absent
IdatSeqNum(idats, position) ==
    LET hits == {i \in 1..Len(idats) : idats[i].position = position}
    IN  IF hits = {} THEN None ELSE Some(CHOOSE i \in hits : \A j \in hits : j <= i)

\* the closure given to sort_by_cached_key: Some(key), or None where it panics
SortKey(s, rd, idats, cr) ==
    IF cr.chunktype = IDAT
    THEN IdatSeqNum(idats, cr.position)
    ELSE LET got == read_fctl_fdat_sequence_number(s, cr)
         IN  IF got.kind # "Ok" THEN None
             ELSE IF rd.first_frame_is_static /\ got.value[1] > 0
                  THEN Some(got.value[1] + Len(idats))
                  ELSE got.value

\* stable sort of a sequence of [key, cr] by key
RECURSIVE InsertByKey(_, _)
InsertByKey(sorted, e) ==
    IF sorted = << >> THEN << e >>
    ELSE IF sorted[Len(sorted)].key <= e.key THEN Append(sorted, e)
    ELSE Append(InsertByKey(SubSeq(sorted, 1, Len(sorted) - 1), e), sorted[Len(sorted)])

RECURSIVE StableSortFrom(_, _, _)
StableSortFrom(keyed, i, sorted) ==
    IF i > Len(keyed) THEN sorted
    ELSE StableSortFrom(keyed, i + 1, InsertByKey(sorted, keyed[i]))

StableSort(keyed) == StableSortFrom(keyed, 1, << >>)

\* the grouping loop over the sorted references
RECURSIVE GroupFrames(_, _, _, _, _)
\* an fcTL: `got` is what self.read_chunk returned for it
GroupFctl(s, rd, sorted, i, frames, got) ==
    IF got.kind # "Ok"
    THEN [rd |-> [rd EXCEPT !.stream_pos = got.pos], kind |-> got.kind, frames |-> << >>]
    ELSE GroupFrames(s, [rd EXCEPT !.stream_pos = got.pos], sorted, i + 1,
                     Append(frames, [fctl |-> got.value[1], dats |-> << >>]))

\* the grouping loop skipping a data reference that no fcTL precedes
GroupFrames_SkipsOrphans(s, rd, sorted, i, frames) ==
    IF i > Len(sorted) THEN [rd |-> rd, kind |-> "Ok", frames |-> frames]
    ELSE IF sorted[i].chunktype = fcTL
         THEN GroupFctl(s, rd, sorted, i, frames, read_chunk(s, sorted[i], rd.ihdr))
         ELSE IF frames = << >>
              THEN GroupFrames(s, rd, sorted, i + 1, frames)
              ELSE GroupFrames(s, rd, sorted, i + 1,
                               [frames EXCEPT ![Len(frames)].dats = Append(@, sorted[i])])

\* the grouping loop pushing every data reference to frames[0] instead of frames[lasti]
GroupFrames_FirstFrame(s, rd, sorted, i, frames) ==
    IF i > Len(sorted) THEN [rd |-> rd, kind |-> "Ok", frames |-> frames]
    ELSE IF sorted[i].chunktype = fcTL
         THEN GroupFctl(s, rd, sorted, i, frames, read_chunk(s, sorted[i], rd.ihdr))
         ELSE IF frames = << >>
              THEN [rd |-> rd, kind |-> "Ordering", frames |-> << >>]
              ELSE GroupFrames(s, rd, sorted, i + 1,
                               [frames EXCEPT ![1].dats = Append(@, sorted[i])])

GroupFrames(s, rd, sorted, i, frames) ==
    IF i > Len(sorted) THEN [rd |-> rd, kind |-> "Ok", frames |-> frames]
    ELSE IF sorted[i].chunktype = fcTL
         THEN GroupFctl(s, rd, sorted, i, frames, read_chunk(s, sorted[i], rd.ihdr))
         ELSE IF frames = << >>
              THEN [rd |-> rd, kind |-> "Ordering", frames |-> << >>]
              ELSE GroupFrames(s, rd, sorted, i + 1,
                               [frames EXCEPT ![Len(frames)].dats = Append(@, sorted[i])])

\* the predicate handed to scan_chunks_filtered
FrameTest(rd) == IF rd.first_frame_is_static THEN {IDAT, fcTL, fdAT} ELSE {fcTL, fdAT}

\* the IDAT references that get generated sequence numbers
FrameIdats(rd, chunkrefs) ==
    IF rd.first_frame_is_static THEN SelectSeq(chunkrefs, LAMBDA cr : cr.chunktype = IDAT)
    ELSE << >>

SortKeys(s, rd, chunkrefs, idats) ==
    [i \in 1..Len(chunkrefs) |-> SortKey(s, rd, idats, chunkrefs[i])]

\* chunkrefs.sort_by_cached_key
Sorted(keyed) == [i \in 1..Len(keyed) |-> keyed[i].cr]

SortedRefs(chunkrefs, keys) ==
    Sorted(StableSort([i \in 1..Len(chunkrefs) |-> [key |-> keys[i][1], cr |-> chunkrefs[i]]]))

FramesResult(sc, g) == [rd |-> g.rd, kind |-> g.kind, frames |-> g.frames, seen |-> sc.seen]

SortAndGroup(s, sc, keys) ==
    IF \E i \in 1..Len(keys) : keys[i] = None
    THEN [rd |-> sc.rd, kind |-> "Panic", frames |-> << >>, seen |-> sc.seen]
    ELSE FramesResult(sc, GroupFrames(s, sc.rd, SortedRefs(sc.list, keys), 1, << >>))

\* after the scan: sc is what scan_chunks_filtered returned
FramesOfScan(s, sc) ==
    IF sc.kind # "Ok"
    THEN [rd |-> sc.rd, kind |-> sc.kind, frames |-> << >>, seen |-> sc.seen]
    ELSE SortAndGroup(s, sc, SortKeys(s, sc.rd, sc.list, FrameIdats(sc.rd, sc.list)))

apng_scan_frames(s, rd) == FramesOfScan(s, scan_chunks_filtered(s, rd, FrameTest(rd)))

(***************************************************************************)
(* Ihdr (chunks/critical.rs): the payload decoder and encoder.             *)
(***************************************************************************)
\* Ihdr::from_contents_stream reading `data` with Some(data_crc): [kind, value, crc]
Ihdr_from_contents_stream(data, data_crc) ==
    IF Len(data) < 13 THEN [kind |-> "Io", value |-> None, crc |-> data_crc]
    ELSE LET buf == Slice(data, 0, 13)
             crc == CrcConsume(data_crc, buf)
         IN  IF /\ PngColourTypeOk(buf[10])
                /\ PngCompressionMethodOk(buf[11])
                /\ PngFilterMethodOk(buf[12])
                /\ PngInterlaceMethodOk(buf[13])
             THEN [kind |-> "Ok", crc |-> crc,
                   value |-> Some([type |-> "Ihdr",
                                   width |-> U32FromBe(Slice(buf, 0, 4)),
                                   height |-> U32FromBe(Slice(buf, 4, 4)),
                                   bit_depth |-> buf[9],
                                   colour_type |-> buf[10],
                                   compression_method |-> buf[11],
                                   filter_method |-> buf[12],
                                   interlace_method |-> buf[13]])]
             ELSE [kind |-> "InvalidValue", value |-> None, crc |-> crc]

\* Ihdr::write_contents with Some(data_crc): the bytes written and the CRC fed with them
Ihdr_write_contents(ihdr, data_crc) ==
    LET width_bytes  == U32ToBe(ihdr.width)
        height_bytes == U32ToBe(ihdr.width)
        rest_bytes   == << ihdr.bit_depth, ihdr.colour_type, ihdr.compression_method,
                           ihdr.filter_method, ihdr.interlace_method >>
    IN  [bytes |-> width_bytes \o height_bytes \o rest_bytes,
         crc   |-> CrcConsume(CrcConsume(CrcConsume(data_crc, width_bytes), height_bytes),
                              rest_bytes)]

(***************************************************************************)
(* Fctl (chunks/animation.rs): the payload decoder and encoder.            *)
(***************************************************************************)
\* u16::to_be_bytes
U16ToBe(n) == << (n \div 256) % 256, n % 256 >>

\* Fctl::from_contents_stream reading `data` with Some(data_crc): [kind, value, crc]
Fctl_from_contents_stream(data, data_crc) ==
    IF Len(data) < 26 THEN [kind |-> "Io", value |-> None, crc |-> data_crc]
    ELSE LET buf == Slice(data, 0, 26)
             crc == CrcConsume(data_crc, buf)
         IN  IF ApngDisposalOperatorOk(buf[25]) /\ ApngBlendOperatorOk(buf[25])
             THEN [kind |-> "Ok", crc |-> crc,
                   value |-> Some([type |-> "Fctl",
                                   sequence_number |-> U32FromBe(Slice(buf, 0, 4)),
                                   width |-> U32FromBe(Slice(buf, 4, 4)),
                                   height |-> U32FromBe(Slice(buf, 8, 4)),
                                   x_offset |-> U32FromBe(Slice(buf, 12, 4)),
                                   y_offset |-> U32FromBe(Slice(buf, 16, 4)),
                                   delay_num |-> U16FromBe(Slice(buf, 20, 2)),
                                   delay_den |-> U16FromBe(Slice(buf, 22, 2)),
                                   dispose_op |-> buf[25],
                                   blend_op |-> buf[25]])]
             ELSE [kind |-> "InvalidValue", value |-> None, crc |-> crc]

\* the bytes Fctl::write_contents writes, in order
FctlBytes(fctl) ==
    U32ToBe(fctl.sequence_number) \o U32ToBe(fctl.width) \o U32ToBe(fctl.height)
        \o U32ToBe(fctl.x_offset) \o U32ToBe(fctl.y_offset)
        \o U16ToBe(fctl.delay_num) \o U16ToBe(fctl.delay_den)
        \o << fctl.dispose_op, fctl.blend_op >>

\* Fctl::write_contents with Some(data_crc): the bytes written and the CRC fed with them
Fctl_write_contents(fctl, data_crc) ==
    [bytes |-> FctlBytes(fctl), crc |-> CrcConsume(data_crc, FctlBytes(fctl))]

(***************************************************************************)
(* Input streams: the PNG signature followed by chunks in wire framing     *)
(* (4-byte length, 4-byte type, payload, 4-byte trailer).                  *)
(***************************************************************************)
Signature == << 137, 80, 78, 71, 13, 10, 26, 10 >>

Crc32(type, data) == CrcValue(CrcConsume(CrcConsume(CrcNew, type), data))

\* a chunk whose length field and trailer are given explicitly
Framed(length, type, data, trailer) == U32ToBe(length) \o type \o data \o trailer

\* a well-formed chunk
Chunk(type, data) == Framed(Len(data), type, data, Crc32(type, data))

\* the same chunk with one bit of the trailer flipped
BadCrcChunk(type, data) ==
    LET crc == Crc32(type, data)
    IN  Framed(Len(data), type, data, [crc EXCEPT ![4] = Xor8(@, 1)])

\* a chunk declared one byte longer than `data`, whose extra payload byte and first three
\* trailer bytes spell the CRC of type ++ data (so its own trailer is not its CRC)
OverlongChunk(type, data) ==
    LET crc == Crc32(type, data)
    IN  Framed(Len(data) + 1, type, Append(data, crc[1]), << crc[2], crc[3], crc[4], 0 >>)

Zeros(n) == SubSeq([i \in 1..n |-> 0], 1, n)
Bytes(n) == SubSeq([i \in 1..n |-> i], 1, n)

IhdrPayload(width, height, bit_depth, colour_type, interlace_method) ==
    U32ToBe(width) \o U32ToBe(height) \o << bit_depth, colour_type, 0, 0, interlace_method >>

FctlPayload(sequence_number, dispose_op, blend_op) ==
    U32ToBe(sequence_number) \o U32ToBe(1) \o U32ToBe(1) \o U32ToBe(0) \o U32ToBe(0)
        \o << 0, 1, 0, 10 >> \o << dispose_op, blend_op >>

FdatPayload(sequence_number, n) == U32ToBe(sequence_number) \o Bytes(n)

\* largest IDAT payload in the plain (Scenario A) family
MaxData == 2

\* most fcTL/fdAT pairs after the IDAT in the static-first-frame family
MaxFrames == 2

\* frame-data lengths of the fdAT chunks: fdAT payloads of 4, 5, 26 and 27 bytes
FdatDataLens == {0, 1, 22, 23}

IhdrA == Chunk(IHDR, IhdrPayload(1, 1, 8, Greyscale, 0))
IdatA == Chunk(IDAT, << 120 >>)
IendA == Chunk(IEND, << >>)
ActlA == Chunk(acTL, U32ToBe(1) \o U32ToBe(0))

\* one chunk of every kind the reader treats differently, well-formed or damaged
ChunkVariants ==
    LET payloads == {
            << IHDR, IhdrPayload(2, 3, 16, TrueColour, 1) >>,
            << IHDR, IhdrPayload(1, 1, 8, IndexedColour, 0) >>,
            << IHDR, IhdrPayload(1, 1, 8, 1, 0) >>,
            << PLTE, << 1, 2, 3 >> >>,
            << IDAT, << 120, 1 >> >>,
            << IEND, << >> >>,
            << tRNS, << 0, 1 >> >>,
            << gAMA, U32ToBe(45455) >>,
            << sBIT, << 8 >> >>,
            << tEXt, << 75, 0, 86 >> >>,
            << tEXt, << 75, 86 >> >>,
            << bKGD, << 0, 1 >> >>,
            << acTL, U32ToBe(1) \o U32ToBe(0) >>,
            << fcTL, FctlPayload(0, 0, 0) >>,
            << fcTL, FctlPayload(0, 2, 1) >>,
            << fdAT, FdatPayload(1, 1) >>,
            << fdAT, << 0, 1 >> >>,
            << prVt, << 7 >> >>,
            << JHDR, Zeros(16) >>,
            << JDAT, << 255 >> >>,
            << JDAA, << 255 >> >>,
            << JSEP, << >> >> }
        overlong == {
            << IHDR, IhdrPayload(2, 3, 16, TrueColour, 1) >>,
            << PLTE, << 1, 2, 3 >> >>,
            << IEND, << >> >>,
            << gAMA, U32ToBe(45455) >>,
            << fcTL, FctlPayload(0, 0, 0) >> }
    IN  {Chunk(p[1], p[2]) : p \in payloads}
            \cup {BadCrcChunk(p[1], p[2]) : p \in payloads}
            \cup {OverlongChunk(p[1], p[2]) : p \in overlong}

\* f = 1..n: the fcTL/fdAT pair with sequence numbers 2f-1 and 2f
FramePair(f, n) == << Chunk(fcTL, FctlPayload(2 * f - 1, 0, 0)), Chunk(fdAT, FdatPayload(2 * f, n)) >>

RECURSIVE FramePairs(_, _)
FramePairs(count, n) ==
    IF count = 0 THEN << >> ELSE FramePairs(count - 1, n) \o FramePair(count, n)

\* Scenario A: a still image
StillLayouts == {<< IhdrA, Chunk(IDAT, Bytes(n)), IendA >> : n \in 0..MaxData}

\* one chunk of any kind before the header or inside it
VariantLayouts ==
    {<< x, IhdrA, IdatA, IendA >> : x \in ChunkVariants}
    \cup {<< IhdrA, x, IdatA, IendA >> : x \in ChunkVariants}

\* Scenario B (one animation frame after the default image), and two frames stored in
\* reverse playback order
AnimationLayouts ==
    {<< IhdrA, IdatA, ActlA, Chunk(fcTL, FctlPayload(0, 0, 0)),
        Chunk(fdAT, FdatPayload(1, n)), IendA >> : n \in FdatDataLens}
    \cup {<< IhdrA, IdatA, ActlA,
             Chunk(fcTL, FctlPayload(2, 0, 0)), Chunk(fdAT, FdatPayload(3, n)),
             Chunk(fcTL, FctlPayload(0, 0, 0)), Chunk(fdAT, FdatPayload(1, n)),
             IendA >> : n \in FdatDataLens}

\* the default image is frame 0, then 0..MaxFrames further frames
StaticLayouts ==
    {<< IhdrA, ActlA, Chunk(fcTL, FctlPayload(0, 0, 0)), IdatA, IdatA >>
        \o FramePairs(count, n) \o << IendA >> : count \in 0..MaxFrames, n \in FdatDataLens}

\* still images and single-chunk variations of them
Streams == {Signature \o Flatten(l) : l \in StillLayouts \cup VariantLayouts}

\* animations
ApngStreams == {Signature \o Flatten(l) : l \in AnimationLayouts \cup StaticLayouts}

\* largest width and height digit of the IHDR payloads
MaxDim == 3

\* widths and heights with the digit in each of the four bytes
Dims == {d * m : d \in 1..MaxDim, m \in {1, 256, 65536, 16777216}}

\* 13-byte IHDR payloads, the colour types and interlace methods including invalid codes
IhdrPayloads ==
    {IhdrPayload(w, h, bd, ct, il) :
        w \in Dims, h \in Dims, bd \in {8, 16},
        ct \in {Greyscale, 1, TrueColour, IndexedColour, GreyscaleAlpha, TrueColourAlpha},
        il \in 0..2}

\* 26-byte fcTL payloads, the dispose and blend bytes including invalid codes
FctlPayloads ==
    {FctlPayload(n, dispose_op, blend_op) :
        n \in {0} \cup Dims, dispose_op \in 0..3, blend_op \in 0..2}

\* position of the stream's first IDAT chunk, Len(s) if it has none
RECURSIVE FirstIdatFrom(_, _)
FirstIdatFrom(s, pos) ==
    LET fs == FromStream(s, pos)
    IN  IF fs.kind # "Ok" THEN Len(s)
        ELSE IF fs.ref[1].chunktype = IDAT THEN pos
        ELSE FirstIdatFrom(s, pos + 12 + fs.ref[1].length)

FirstIdatPos(s) == FirstIdatFrom(s, 8)

(***************************************************************************)
(* State                                                                   *)
(***************************************************************************)
VARIABLES
    stream,          \* the bytes of the input (never written)
    reader,          \* the PngReader
    refs,            \* the chunk references the caller has been handed so far
    fctl_in_header,  \* history: some fcTL lying before the first IDAT was scanned
    last,            \* the last call: its arguments, what it scanned, what it returned
    ops,             \* how many more calls the caller makes
    decoded,         \* the Ihdr value the caller holds, if any
    output,          \* the bytes the last encoder call wrote
    data_crc         \* the CRC accumulator handed to the last decoder or encoder call

codec == << decoded, output, data_crc >>

vars == << stream, reader, refs, fctl_in_header, last, ops, decoded, output, data_crc >>

\* calls per behaviour
MaxOps == 3

\* op: the method; start: the scan cursor when it was called; arg: its chunk reference;
\* kind: "Ok" or the error; list, value, frames: the Vec, payload or frames returned;
\* seen: the references scan_next_chunk produced inside the call
Returned(op, start, arg, kind, list, value, frames, seen) ==
    [op |-> op, start |-> start, arg |-> arg, kind |-> kind, list |-> list,
     value |-> value, frames |-> frames, seen |-> seen]

SeqRange(q) == {q[i] : i \in 1..Len(q)}

\* the history variable after the references `seen` were scanned
SeenFctlInHeader(seen) ==
    \/ fctl_in_header
    \/ \E r \in SeqRange(seen) : r.chunktype = fcTL /\ r.position < FirstIdatPos(stream)

\* a panic unwinds through the caller: the reader is not used again
Alive == last.kind # "Panic"

\* the caller makes one more call
Call == Alive /\ ops > 0 /\ ops' = ops - 1

InitReader ==
    /\ reader = NewReader
    /\ refs = {}
    /\ fctl_in_header = FALSE
    /\ decoded = None
    /\ output = << >>
    /\ data_crc = CrcNew
    /\ last = Returned("from_stream", 8, None, "Ok", << >>, None, << >>, << >>)

Init ==
    /\ stream \in Streams
    /\ InitReader
    /\ ops = MaxOps

\* animations, explored one call further
InitApng ==
    /\ stream \in ApngStreams
    /\ InitReader
    /\ ops = MaxOps + 1

\* the stream is one fcTL payload, handed to the payload decoder and encoder
InitFctl ==
    /\ stream \in FctlPayloads
    /\ InitReader
    /\ ops = MaxOps

\* the stream is one IHDR payload, handed to the payload decoder and encoder
InitIhdr ==
    /\ stream \in IhdrPayloads
    /\ InitReader
    /\ ops = MaxOps

(***************************************************************************)
(* Operations of PngReader                                                 *)
(***************************************************************************)
\* a scan returned sc = [rd, kind, list, seen]
ScanReturnsWith(op, arg, sc) ==
    /\ reader' = sc.rd
    /\ refs' = refs \cup SeqRange(sc.list)
    /\ fctl_in_header' = SeenFctlInHeader(sc.seen)
    /\ last' = Returned(op, reader.next_chunk_pos, arg, sc.kind, sc.list, None, << >>, sc.seen)
    /\ UNCHANGED << stream, codec >>

ScanReturns(op, sc) == ScanReturnsWith(op, None, sc)

\* what scan_next_chunk returned, as a scan of at most one chunk
OneChunk(sn) == [rd |-> sn.rd, kind |-> sn.kind, list |-> sn.ref, seen |-> sn.ref]

ScanNextChunk ==
    /\ Call
    /\ ScanReturns("scan_next_chunk", OneChunk(scan_next_chunk(stream, reader)))

ScanAllChunks ==
    /\ Call
    /\ ScanReturns("scan_all_chunks", scan_all_chunks(stream, reader))

ScanHeaderChunks ==
    /\ Call
    /\ ScanReturns("scan_header_chunks", scan_header_chunks(stream, reader))

\* the predicates callers filter with
Tests == {{fcTL, fdAT}, {IHDR, IDAT, IEND}}

ScanChunksFiltered ==
    /\ Call
    /\ \E test \in Tests :
         ScanReturnsWith("scan_chunks_filtered", Some(test),
                         scan_chunks_filtered(stream, reader, test))

\* reset_next_chunk_position putting the reader back to what from_stream built
ResetNextChunkPosition_Clears ==
    /\ Call
    /\ reader' = [reader EXCEPT !.next_chunk_pos = 8, !.in_header = TRUE,
                                !.filetype = Png, !.first_frame_is_static = FALSE]
    /\ last' = Returned("reset_next_chunk_position", reader.next_chunk_pos, None, "Ok",
                        << >>, None, << >>, << >>)
    /\ UNCHANGED << stream, refs, fctl_in_header, codec >>

ResetNextChunkPosition ==
    /\ Call
    /\ reader' = [reader EXCEPT !.next_chunk_pos = 8, !.in_header = TRUE]
    /\ last' = Returned("reset_next_chunk_position", reader.next_chunk_pos, None, "Ok",
                        << >>, None, << >>, << >>)
    /\ UNCHANGED << stream, refs, fctl_in_header, codec >>

SetNextChunkPosition ==
    /\ Call
    /\ \E chunkref \in refs :
         /\ reader' = [reader EXCEPT !.next_chunk_pos = chunkref.position]
         /\ last' = Returned("set_next_chunk_position", reader.next_chunk_pos, Some(chunkref),
                             "Ok", << >>, None, << >>, << >>)
    /\ UNCHANGED << stream, refs, fctl_in_header, codec >>

\* set_next_chunk_position_after without the 4 bytes of the CRC
SetNextChunkPositionAfter_NoCrc ==
    /\ Call
    /\ \E chunkref \in refs :
         /\ reader' = [reader EXCEPT !.next_chunk_pos = chunkref.position + 4 + 4 + chunkref.length]
         /\ last' = Returned("set_next_chunk_position_after", reader.next_chunk_pos,
                             Some(chunkref), "Ok", << >>, None, << >>, << >>)
    /\ UNCHANGED << stream, refs, fctl_in_header, codec >>

SetNextChunkPositionAfter ==
    /\ Call
    /\ \E chunkref \in refs :
         /\ reader' = [reader EXCEPT
                          !.next_chunk_pos = chunkref.position + 4 + 4 + chunkref.length + 4]
         /\ last' = Returned("set_next_chunk_position_after", reader.next_chunk_pos,
                             Some(chunkref), "Ok", << >>, None, << >>, << >>)
    /\ UNCHANGED << stream, refs, fctl_in_header, codec >>

\* read_chunk through the scan cursor instead of the reference's own position
ReadReturns_MovesCursor(chunkref, got) ==
    /\ reader' = [reader EXCEPT !.stream_pos = got.pos, !.next_chunk_pos = got.pos]
    /\ last' = Returned("read_chunk", reader.next_chunk_pos, Some(chunkref), got.kind,
                        << >>, got.value, << >>, << >>)
    /\ UNCHANGED << stream, refs, fctl_in_header, codec >>

ReadReturns(chunkref, got) ==
    /\ reader' = [reader EXCEPT !.stream_pos = got.pos]
    /\ last' = Returned("read_chunk", reader.next_chunk_pos, Some(chunkref), got.kind,
                        << >>, got.value, << >>, << >>)
    /\ UNCHANGED << stream, refs, fctl_in_header, codec >>

\* PngReader::read_chunk
ReadChunk ==
    /\ Call
    /\ \E chunkref \in refs : ReadReturns(chunkref, read_chunk(stream, chunkref, reader.ihdr))

FramesReturn(sf) ==
    /\ reader' = sf.rd
    /\ refs' = refs \cup UNION {SeqRange(sf.frames[i].dats) : i \in 1..Len(sf.frames)}
    /\ fctl_in_header' = SeenFctlInHeader(sf.seen)
    /\ last' = Returned("apng_scan_frames", reader.next_chunk_pos, None, sf.kind,
                        << >>, None, sf.frames, sf.seen)
    /\ UNCHANGED << stream, codec >>

ApngScanFrames ==
    /\ Call
    /\ FramesReturn(apng_scan_frames(stream, reader))

(***************************************************************************)
(* Operations of Ihdr, each handed a fresh CRC accumulator                 *)
(***************************************************************************)
FromContentsStream ==
    /\ Call
    /\ LET got == Ihdr_from_contents_stream(stream, CrcNew)
       IN  /\ decoded' = got.value
           /\ data_crc' = got.crc
           /\ last' = Returned("from_contents_stream", 0, None, got.kind, << >>, got.value,
                               << >>, << >>)
    /\ UNCHANGED << stream, reader, refs, fctl_in_header, output >>

WriteContents ==
    /\ Call
    /\ IsSome(decoded)
    /\ LET put == Ihdr_write_contents(decoded[1], CrcNew)
       IN  /\ output' = put.bytes
           /\ data_crc' = put.crc
           /\ last' = Returned("write_contents", 0, None, "Ok", << >>, None, << >>, << >>)
    /\ UNCHANGED << stream, reader, refs, fctl_in_header, decoded >>

NextIhdr ==
    \/ FromContentsStream
    \/ WriteContents

(***************************************************************************)
(* Operations of Fctl, each handed a fresh CRC accumulator                 *)
(***************************************************************************)
FctlDecoded(got) ==
    /\ decoded' = got.value
    /\ data_crc' = got.crc
    /\ last' = Returned("Fctl::from_contents_stream", 0, None, got.kind, << >>, got.value,
                        << >>, << >>)
    /\ UNCHANGED << stream, reader, refs, fctl_in_header, output >>

FctlFromContentsStream ==
    /\ Call
    /\ FctlDecoded(Fctl_from_contents_stream(stream, CrcNew))

FctlWritten(put) ==
    /\ output' = put.bytes
    /\ data_crc' = put.crc
    /\ last' = Returned("Fctl::write_contents", 0, None, "Ok", << >>, None, << >>, << >>)
    /\ UNCHANGED << stream, reader, refs, fctl_in_header, decoded >>

FctlWriteContents ==
    /\ Call
    /\ IsSome(decoded)
    /\ FctlWritten(Fctl_write_contents(decoded[1], CrcNew))

NextFctl ==
    \/ FctlFromContentsStream
    \/ FctlWriteContents

Next ==
    \/ ScanNextChunk
    \/ ScanAllChunks
    \/ ScanHeaderChunks
    \/ ScanChunksFiltered
    \/ ResetNextChunkPosition
    \/ SetNextChunkPosition
    \/ SetNextChunkPositionAfter
    \/ ReadChunk
    \/ ApngScanFrames

Spec == Init /\ [][Next]_vars

SpecApng == InitApng /\ [][Next]_vars

SpecIhdr == InitIhdr /\ [][NextIhdr]_vars

SpecFctl == InitFctl /\ [][NextFctl]_vars

\* every stream, animations included, and a caller that makes one call fewer
InitFrames ==
    /\ stream \in Streams \cup ApngStreams
    /\ InitReader
    /\ ops = MaxOps - 1

SpecFrames == InitFrames /\ [][Next]_vars

(***************************************************************************)
(* The stream as the container format defines it, read off the bytes       *)
(* without the reader: what the properties below compare the reader with.  *)
(***************************************************************************)
\* the `length` payload bytes of the chunk at r, and the 4 bytes stored after them
PayloadOf(s, r) == Slice(s, r.position + 8, r.length)
TrailerOf(s, r) == Slice(s, r.position + 8 + r.length, 4)

\* the chunk at r lies wholly inside the stream
WholeChunk(s, r) == r.position + 12 + r.length <= Len(s)

\* the trailer stored after the payload is CRC-32(type_code ++ payload)
TrailerMatches(s, r) == TrailerOf(s, r) = Crc32(r.chunktype, PayloadOf(s, r))

\* the sequence number stored in the first 4 bytes of the payload of the fcTL/fdAT at r
StoredSequenceNumber(s, r) == U32FromBe(Slice(s, r.position + 8, 4))

\* the references of the chunks of s in file order, from position pos on
RECURSIVE ChunksFrom(_, _)
ChunksFrom(s, pos) ==
    LET fs == FromStream(s, pos)
    IN  IF fs.kind # "Ok" \/ ~WholeChunk(s, fs.ref[1]) THEN << >>
        ELSE << fs.ref[1] >> \o ChunksFrom(s, pos + 12 + fs.ref[1].length)

ChunksOf(s) == ChunksFrom(s, 8)

TypesOf(s) == [i \in 1..Len(ChunksOf(s)) |-> ChunksOf(s)[i].chunktype]

\* every chunk up to the end of the stream is whole and carries its CRC, the last is IEND
WellFormed(s) ==
    LET cs == ChunksOf(s)
    IN  /\ cs # << >>
        /\ cs[Len(cs)].chunktype = IEND
        /\ cs[Len(cs)].position + 12 + cs[Len(cs)].length = Len(s)
        /\ \A i \in 1..Len(cs) : TrailerMatches(s, cs[i])

IsAnimationChunk(r) == r.chunktype \in {fcTL, fdAT}
IsIdat(r) == r.chunktype = IDAT
IsFctl(r) == r.chunktype = fcTL

\* the fcTL/fdAT references of s in file order, and their stored sequence numbers
AnimationChunks(s) == SelectSeq(ChunksOf(s), IsAnimationChunk)
StoredSequenceNumbers(s, rs) == [i \in 1..Len(rs) |-> StoredSequenceNumber(s, rs[i])]

Distinct(q) == \A i, j \in 1..Len(q) : i # j => q[i] # q[j]
Ascending(q) == \A i \in 1..Len(q) - 1 : q[i] < q[i + 1]

\* an fcTL lies before the first IDAT
HasStaticFirstFrame(s) ==
    \E i \in 1..Len(ChunksOf(s)) :
        ChunksOf(s)[i].chunktype = fcTL /\ ChunksOf(s)[i].position < FirstIdatPos(s)

\* the sequence numbers of returned frames in the order returned: each frame's fcTL, then
\* its data references
RECURSIVE FrameSequenceNumbers(_, _)
FrameSequenceNumbers(s, frames) ==
    IF frames = << >> THEN << >>
    ELSE << frames[1].fctl.sequence_number >>
            \o StoredSequenceNumbers(s, frames[1].dats)
            \o FrameSequenceNumbers(s, Tail(frames))

\* the references before the first IDAT: what a header scan returns
HeaderChunks(s) == SelectSeq(ChunksOf(s), LAMBDA r : r.position < FirstIdatPos(s))

\* the fcTL chunks after the first IDAT, each followed by an fdAT
FurtherFctls(s) == SelectSeq(ChunksOf(s), LAMBDA r : IsFctl(r) /\ r.position > FirstIdatPos(s))

\* an fcTL with sequence number 0 before the first IDAT, then fcTL chunks each followed by
\* its fdAT chunk(s), the sequence numbers increasing through the file
StaticFirstFrameStream(s) ==
    LET cs == ChunksOf(s)
        as == AnimationChunks(s)
    IN  /\ WellFormed(s)
        /\ as # << >>
        /\ IsFctl(as[1]) /\ as[1].position < FirstIdatPos(s)
        /\ StoredSequenceNumber(s, as[1]) = 0
        /\ \A i \in 2..Len(as) : as[i].position > FirstIdatPos(s)
        /\ \A i \in 1..Len(cs) - 1 :
               (IsFctl(cs[i]) /\ cs[i].position > FirstIdatPos(s))
                   => cs[i + 1].chunktype = fdAT
        /\ Ascending(StoredSequenceNumbers(s, as))

\* Scenario B: IHDR, IDAT, acTL, fcTL{sequence_number=0}, fdAT{sequence_number=1}, IEND
ScenarioB(s) ==
    /\ WellFormed(s)
    /\ TypesOf(s) = << IHDR, IDAT, acTL, fcTL, fdAT, IEND >>
    /\ StoredSequenceNumbers(s, AnimationChunks(s)) = << 0, 1 >>

\* index of the first IDAT in a list of references, 0 if it holds none
FirstIdatIndex(rs) ==
    IF \E i \in 1..Len(rs) : IsIdat(rs[i])
    THEN CHOOSE i \in 1..Len(rs) : IsIdat(rs[i]) /\ \A j \in 1..(i - 1) : ~IsIdat(rs[j])
    ELSE 0

\* l is the record of a successful header scan that left the reader rd: the list is the
\* chunks from the cursor up to the first IDAT, the cursor is on that IDAT
HeaderScanExact(s, l, rd) ==
    LET all == ChunksFrom(s, l.start)
        k   == FirstIdatIndex(all)
    IN  /\ k > 0
        /\ l.list = SubSeq(all, 1, k - 1)
        /\ rd.next_chunk_pos = all[k].position

ScanOps == {"scan_next_chunk", "scan_all_chunks", "scan_header_chunks", "scan_chunks_filtered"}

(***************************************************************************)
(* Properties                                                              *)
(***************************************************************************)
\* C1: read_chunk never returns a decoded payload for a reference, of a type that has a
\* decoder, whose 4-byte trailer stored after the `length` payload bytes differs from
\* CRC-32(type_code ++ payload): it returns an error (the CRC mismatch).
C1_BadTrailerNeverDecoded ==
    (/\ last.op = "read_chunk"
     /\ last.arg[1].chunktype \in DecodedTypes
     /\ WholeChunk(stream, last.arg[1])
     /\ ~TrailerMatches(stream, last.arg[1]))
        => last.kind # "Ok"

C7_AnimationChunkMakesApng ==
    (/\ last.op = "scan_next_chunk"
     /\ last.kind = "Ok"
     /\ last.list[1].chunktype \in {acTL, fcTL, fdAT})
        => reader.filetype = Apng

\* C8: while the reader has decoded no IHDR (reader.ihdr unset), PngReader::read_chunk on
\* a reference of type tRNS, sBIT or bKGD returns the missing-context error and no payload.
C8_NoIhdrNoContext ==
    (/\ last.op = "read_chunk"
     /\ last.arg[1].chunktype \in {tRNS, sBIT, bKGD}
     /\ ~IsSome(reader.ihdr))
        => (last.kind = "UnsetIhdr" /\ last.value = None)

\* read_chunk was called on a whole, well-formed tRNS, sBIT or bKGD chunk lying before
\* the IHDR, with reader.ihdr unset
C8_Witness ==
    /\ last.op = "read_chunk"
    /\ last.arg[1].chunktype \in {tRNS, sBIT, bKGD}
    /\ TrailerMatches(stream, last.arg[1])
    /\ ~IsSome(reader.ihdr)
    /\ last.kind = "UnsetIhdr"

\* C9: once reader.ihdr is set, no operation changes it or the width, height, bit_depth
\* and colour_type derived from it.
C9_IhdrDecodedOnce ==
    [][IsSome(reader.ihdr) =>
          /\ reader'.ihdr = reader.ihdr
          /\ reader'.width = reader.width
          /\ reader'.height = reader.height
          /\ reader'.bit_depth = reader.bit_depth
          /\ reader'.colour_type = reader.colour_type]_vars

\* C3: apng_scan_frames, run from the start of a well-formed stream whose first frame is
\* not static and whose fcTL/fdAT chunks carry distinct sequence numbers in an order
\* different from their file order, returns every fcTL/fdAT chunk, the frames and the
\* data references inside each frame in ascending order of the stored sequence numbers.
C3_FramesInSequenceOrder ==
    (/\ last.op = "apng_scan_frames"
     /\ last.start = 8
     /\ WellFormed(stream)
     /\ ~HasStaticFirstFrame(stream)
     /\ Distinct(StoredSequenceNumbers(stream, AnimationChunks(stream)))
     /\ ~Ascending(StoredSequenceNumbers(stream, AnimationChunks(stream))))
        => /\ last.kind = "Ok"
           /\ Len(FrameSequenceNumbers(stream, last.frames)) = Len(AnimationChunks(stream))
           /\ Ascending(FrameSequenceNumbers(stream, last.frames))

\* C4: on a stream with a static first frame (fcTL 0 before the first IDAT) and N further
\* fcTL chunks each followed by its fdAT, after a header scan and
\* reset_next_chunk_position, apng_scan_frames returns exactly N+1 frames and the data
\* list of frame 0 is exactly the IDAT references in file order.
C4_StaticFirstFrame ==
    [][(/\ StaticFirstFrameStream(stream)
        /\ refs = SeqRange(HeaderChunks(stream))
        /\ reader.first_frame_is_static
        /\ last.op = "reset_next_chunk_position"
        /\ last'.op = "apng_scan_frames")
          => /\ last'.kind = "Ok"
             /\ Len(last'.frames) = Len(FurtherFctls(stream)) + 1
             /\ last'.frames[1].dats = SelectSeq(ChunksOf(stream), IsIdat)]_vars

\* C5: on Scenario B the filetype is Apng after scanning all chunks, and
\* apng_scan_frames started from a reset cursor returns exactly one frame, whose
\* fctl.sequence_number is 0 and whose data list is exactly the one fdAT reference,
\* whatever the length of the fdAT payload.
C5_ScenarioBOneFrame ==
    ScenarioB(stream) =>
        /\ (last.op = "scan_all_chunks" /\ last.start = 8)
               => (last.kind = "Ok" /\ reader.filetype = Apng)
        /\ (last.op = "apng_scan_frames" /\ last.start = 8)
               => /\ last.kind = "Ok"
                  /\ Len(last.frames) = 1
                  /\ last.frames[1].fctl.sequence_number = 0
                  /\ last.frames[1].dats = SelectSeq(ChunksOf(stream), LAMBDA r : r.chunktype = fdAT)

\* C6: first_frame_is_static is true if and only if some scanned fcTL chunk lies in the
\* stream before the stream's first IDAT chunk.
C6_StaticIffFctlInHeader ==
    reader.first_frame_is_static <=> fctl_in_header

\* C10: write_contents applied to the value from_contents_stream returned for a
\* well-formed 13-byte IHDR payload writes exactly that payload and feeds the same bytes
\* to the CRC accumulator.
C10_IhdrRoundTrip ==
    last.op = "write_contents"
        => (output = stream /\ data_crc = CrcConsume(CrcNew, stream))

\* C11: for a well-formed 26-byte fcTL payload (dispose_op byte in 0..2, blend_op byte in
\* 0..1) decoding succeeds with dispose_op taken from byte 24 and blend_op from byte 25,
\* and Fctl::write_contents of the decoded value writes exactly the payload.
C11_FctlRoundTrip ==
    (ApngDisposalOperatorOk(stream[25]) /\ ApngBlendOperatorOk(stream[26]))
        => /\ last.op = "Fctl::from_contents_stream"
                  => /\ last.kind = "Ok"
                     /\ decoded[1].dispose_op = stream[25]
                     /\ decoded[1].blend_op = stream[26]
           /\ last.op = "Fctl::write_contents" => output = stream

\* C12: a successful read_chunk on a reference r of a decodable type has consumed exactly
\* r.length payload bytes and the 4 trailer bytes after them: it leaves the stream at
\* r.position + 12 + r.length, whatever r.length is.
C12_ReadConsumesWholeChunk ==
    (/\ last.op = "read_chunk"
     /\ last.kind = "Ok"
     /\ last.arg[1].chunktype \in DecodedTypes)
        => reader.stream_pos = last.arg[1].position + 12 + last.arg[1].length

\* C13: a successful scan_header_chunks returns, in file order, exactly the chunks from
\* the cursor up to but excluding the first IDAT and leaves the cursor on that IDAT; a
\* scan_next_chunk called next returns the reference of that IDAT.
C13_HeaderScanStopsAtIdat ==
    [][/\ (last'.op = "scan_header_chunks" /\ last'.kind = "Ok")
              => HeaderScanExact(stream, last', reader')
       /\ (last.op = "scan_header_chunks" /\ last.kind = "Ok" /\ last'.op = "scan_next_chunk")
              => /\ last'.kind = "Ok"
                 /\ IsIdat(last'.list[1])
                 /\ last'.list[1].position = reader.next_chunk_pos
                 /\ last'.list[1] = ChunksFrom(stream, last.start)[Len(last.list) + 1]]_vars

\* a header scan returned a non-empty header, and scan_next_chunk then returned the IDAT
C13_Witness ==
    /\ last.op = "scan_next_chunk"
    /\ last.kind = "Ok"
    /\ IsIdat(last.list[1])
    /\ refs = SeqRange(HeaderChunks(stream)) \cup {last.list[1]}
    /\ Len(HeaderChunks(stream)) > 1
    /\ ops = MaxOps - 2

\* index of the first IEND in a list of references, 0 if it holds none
FirstIendIndex(rs) ==
    IF \E i \in 1..Len(rs) : rs[i].chunktype = IEND
    THEN CHOOSE i \in 1..Len(rs) :
             rs[i].chunktype = IEND /\ \A j \in 1..(i - 1) : rs[j].chunktype # IEND
    ELSE 0

\* the chunks of s from position pos up to and including the first IEND
ThroughFirstIend(s, pos) == SubSeq(ChunksFrom(s, pos), 1, FirstIendIndex(ChunksFrom(s, pos)))

\* l is the record of a successful scan_all_chunks: the first reference is at the cursor,
\* each next one follows the previous chunk, the only IEND is the last one
AllScanExact(s, l) ==
    /\ l.list # << >>
    /\ l.list = ThroughFirstIend(s, l.start)
    /\ l.list[1].position = l.start
    /\ \A i \in 1..(Len(l.list) - 1) :
           /\ l.list[i + 1].position = l.list[i].position + 12 + l.list[i].length
           /\ l.list[i].chunktype # IEND
    /\ l.list[Len(l.list)].chunktype = IEND

\* scan_all_chunks right after a successful scan_header_chunks
AllAfterHeader ==
    /\ last.op = "scan_header_chunks" /\ last.kind = "Ok"
    /\ last'.op = "scan_all_chunks" /\ last'.kind = "Ok"

\* C14 as stated: a successful scan_all_chunks returns the chunks from the cursor (byte 8
\* on a fresh reader) through the first IEND; right after scan_header_chunks it starts with
\* the first IDAT, and the header list followed by its list is the full scan from the
\* cursor the header scan started at.
C14_HeaderThenAllIsFullScan ==
    [][/\ (last'.op = "scan_all_chunks" /\ last'.kind = "Ok")
              => /\ AllScanExact(stream, last')
                 /\ last.op = "from_stream" => last'.start = 8
       /\ AllAfterHeader
              => /\ IsIdat(last'.list[1])
                 /\ last'.start = reader.next_chunk_pos
                 /\ last.list \o last'.list = ThroughFirstIend(stream, last.start)]_vars

\* C14 amended: the same, the concatenation being the full scan when no IEND stands before
\* the first IDAT.
C14_HeaderThenAllIsFullScanNoEarlyIend ==
    [][/\ (last'.op = "scan_all_chunks" /\ last'.kind = "Ok")
              => /\ AllScanExact(stream, last')
                 /\ last.op = "from_stream" => last'.start = 8
       /\ AllAfterHeader
              => /\ IsIdat(last'.list[1])
                 /\ last'.start = reader.next_chunk_pos
                 /\ FirstIendIndex(last.list) = 0
                        => last.list \o last'.list = ThroughFirstIend(stream, last.start)]_vars

\* a header scan from byte 8 returned a header without IEND, then scan_all_chunks returned
\* the rest of the file
C14_Witness ==
    /\ last.op = "scan_all_chunks"
    /\ last.kind = "Ok"
    /\ IsIdat(last.list[1])
    /\ Len(last.list) > 1
    /\ ops = MaxOps - 2
    /\ refs = SeqRange(ChunksOf(stream))
    /\ Len(HeaderChunks(stream)) > 1
    /\ FirstIendIndex(HeaderChunks(stream)) = 0
    /\ HeaderChunks(stream) \o last.list = ThroughFirstIend(stream, 8)

\* the filtered scan that returned l and left the reader rd agrees with what
\* scan_all_chunks returns (all) from the same reader
FilteredAgrees(l, rd, all) ==
    /\ l.kind = all.kind
    /\ l.list = SelectSeq(all.list, LAMBDA r : r.chunktype \in l.arg[1])
    /\ rd.next_chunk_pos = all.rd.next_chunk_pos
    /\ rd.filetype = all.rd.filetype
    /\ rd.ihdr = all.rd.ihdr
    /\ << rd.width, rd.height, rd.bit_depth, rd.colour_type >>
           = << all.rd.width, all.rd.height, all.rd.bit_depth, all.rd.colour_type >>
    /\ rd.first_frame_is_static = all.rd.first_frame_is_static

\* C15: scan_chunks_filtered(p) returns exactly the references of the list scan_all_chunks
\* returns from the same cursor whose type codes satisfy p, in the same order (IEND only
\* if p accepts it), fails when scan_all_chunks fails, and leaves the cursor, the
\* filetype, the IHDR fields and the first-frame flag as scan_all_chunks would.
C15_FilteredIsSubsequenceOfAll ==
    [][last'.op = "scan_chunks_filtered"
          => FilteredAgrees(last', reader', scan_all_chunks(stream, reader))]_vars

\* a filtered scan whose predicate accepts IEND kept some of the chunks it went through
\* and dropped others
C15_Witness ==
    /\ last.op = "scan_chunks_filtered"
    /\ last.kind = "Ok"
    /\ last.list # << >>
    /\ Len(last.list) < Len(last.seen)
    /\ IEND \in last.arg[1]
    /\ last.list = SelectSeq(last.seen, LAMBDA r : r.chunktype \in last.arg[1])

\* the scan_next_chunk that returned l scanned the chunk at position pos: it returned what
\* a reader that has done nothing else returns there, on success the reference read at pos
ScannedChunkAt(l, pos, fresh) ==
    /\ l.start = pos
    /\ l.kind = fresh.kind
    /\ l.list = fresh.ref
    /\ l.kind = "Ok" => /\ l.list = FromStream(stream, pos).ref
                        /\ l.list[1].position = pos

ScannedAt(l, pos) ==
    ScannedChunkAt(l, pos, scan_next_chunk(stream, [NewReader EXCEPT !.next_chunk_pos = pos]))

\* C16: whatever was done before, the scan_next_chunk that follows
\* set_next_chunk_position(r) returns r, the one that follows
\* set_next_chunk_position_after(r) scans the chunk at r.position + 12 + r.length, and the
\* one that follows reset_next_chunk_position scans the chunk at byte 8.
C16_CursorOpsPlaceNextScan ==
    [][last'.op = "scan_next_chunk"
          => /\ last.op = "set_next_chunk_position"
                    => last'.kind = "Ok" /\ last'.list = last.arg
             /\ last.op = "set_next_chunk_position_after"
                    => ScannedAt(last', last.arg[1].position + 12 + last.arg[1].length)
             /\ last.op = "reset_next_chunk_position"
                    => ScannedAt(last', 8)]_vars

\* after a scan of the whole file and set_next_chunk_position_after(IHDR), scan_next_chunk
\* returned the IDAT that follows the IHDR
C16_Witness ==
    /\ last.op = "scan_next_chunk"
    /\ last.kind = "Ok"
    /\ ops = MaxOps - 3
    /\ Len(last.seen) = 1
    /\ Len(ChunksOf(stream)) = 3
    /\ refs = SeqRange(ChunksOf(stream))
    /\ last.list[1] = ChunksOf(stream)[2]
    /\ last.start = ChunksOf(stream)[1].position + 12 + ChunksOf(stream)[1].length
    /\ reader.next_chunk_pos = ChunksOf(stream)[3].position

\* the value read_chunk decoded from r is made of the payload bytes at r.position + 8
DecodedAt(s, r, value) ==
    /\ r.chunktype = IDAT => value[1] = [type |-> "Idat", data |-> Slice(s, r.position + 8, r.length)]
    /\ r.chunktype = IHDR => /\ value[1].type = "Ihdr"
                             /\ value[1].width = U32FromBe(Slice(s, r.position + 8, 4))
                             /\ value[1].height = U32FromBe(Slice(s, r.position + 12, 4))
    /\ r.chunktype = IEND => value[1] = [type |-> "Iend"]

\* C17: read_chunk(r) decodes the bytes at r.position wherever the scan cursor is, returns
\* again what it returned when called again with the same r, and changes nothing of the
\* reader but the position of the underlying stream.
C17_ReadChunkLeavesScanState ==
    [][last'.op = "read_chunk"
          => /\ reader' = [reader EXCEPT !.stream_pos = reader'.stream_pos]
             /\ last'.kind = "Ok" => DecodedAt(stream, last'.arg[1], last'.value)
             /\ (last.op = "read_chunk" /\ last.arg = last'.arg)
                    => last'.kind = last.kind /\ last'.value = last.value]_vars

\* after two scans left the cursor at the end of the file, read_chunk decoded the IHDR
\* from its reference at the start of the file
C17_Witness ==
    /\ last.op = "read_chunk"
    /\ last.kind = "Ok"
    /\ last.arg[1].chunktype = IHDR
    /\ last.value[1].width = 1
    /\ ops = MaxOps - 3
    /\ refs = SeqRange(ChunksOf(stream))
    /\ reader.next_chunk_pos = Len(stream)
    /\ reader.next_chunk_pos > last.arg[1].position + 12 + last.arg[1].length
    /\ reader.stream_pos = last.arg[1].position + 12 + last.arg[1].length

JngTypes == {JHDR, JDAT, JDAA, JSEP}

\* the 8-byte header at position pos of s carries one of the JNG type codes
JngChunkAt(s, pos) ==
    /\ FromStream(s, pos).kind = "Ok"
    /\ FromStream(s, pos).ref[1].chunktype \in JngTypes

\* C18: scan_next_chunk answers a chunk of type JHDR, JDAT, JDAA or JSEP with the
\* invalid-chunk-type error, the stream just past the chunk's 8-byte header, and no list a
\* scan returns holds a reference of such a type.
C18_JngChunksRejected ==
    [][/\ (last'.op = "scan_next_chunk" /\ JngChunkAt(stream, reader.next_chunk_pos))
              => /\ last'.kind = "InvalidChunkType"
                 /\ last'.list = << >>
                 /\ reader'.stream_pos = reader.next_chunk_pos + 8
       /\ (last'.op \in ScanOps /\ JngChunkAt(stream, reader.next_chunk_pos))
              => last'.kind = "InvalidChunkType" /\ last'.list = << >>
       /\ \A i \in 1..Len(last'.list) : last'.list[i].chunktype \notin JngTypes
       /\ \A r \in refs' : r.chunktype \notin JngTypes]_vars

\* scan_next_chunk went past an IHDR, then stopped at the header of a JNG chunk
C18_Witness ==
    /\ last.op = "scan_next_chunk"
    /\ last.kind = "InvalidChunkType"
    /\ JngChunkAt(stream, last.start)
    /\ last.start > 8
    /\ reader.stream_pos = last.start + 8
    /\ Cardinality(refs) = 1

\* a type code read_chunk has no arm for and scan_next_chunk does not reject
Unregistered(t) == t \notin DecodedTypes /\ t \notin JngTypes

\* C19: scan_next_chunk returns the reference of a chunk of a type without decoder (and
\* not JHDR, JDAT, JDAA, JSEP) and moves the cursor past the chunk; read_chunk on such a
\* reference returns the unrecognized-chunk-type error, never the CRC-mismatch error,
\* whether the chunk's trailer matches or not.
C19_UnregisteredScansButDoesNotDecode ==
    [][/\ (/\ last'.op = "scan_next_chunk"
           /\ FromStream(stream, reader.next_chunk_pos).kind = "Ok"
           /\ Unregistered(FromStream(stream, reader.next_chunk_pos).ref[1].chunktype))
              => /\ last'.kind = "Ok"
                 /\ last'.list = FromStream(stream, reader.next_chunk_pos).ref
                 /\ reader'.next_chunk_pos
                        = reader.next_chunk_pos + 12 + last'.list[1].length
       /\ (last'.op = "read_chunk" /\ Unregistered(last'.arg[1].chunktype))
              => /\ last'.kind = "Unhandled"
                 /\ last'.kind # "CrcMismatch"
                 /\ last'.value = None]_vars

\* read_chunk returned the unrecognized-chunk-type error for a scanned private chunk whose
\* trailer does not match
C19_Witness ==
    /\ last.op = "read_chunk"
    /\ last.kind = "Unhandled"
    /\ last.arg[1].chunktype = prVt
    /\ last.arg[1] \in refs
    /\ WholeChunk(stream, last.arg[1])
    /\ ~TrailerMatches(stream, last.arg[1])
    /\ reader.next_chunk_pos >= last.arg[1].position + 12 + last.arg[1].length

\* the order apng_scan_frames sorts the references of the scan sc into, empty when the
\* scan failed or a sort key could not be read
OrderOfKeys(sc, keys) ==
    IF sc.kind # "Ok" \/ \E i \in 1..Len(keys) : keys[i] = None THEN << >>
    ELSE SortedRefs(sc.list, keys)

OrderOfScan(s, sc) ==
    OrderOfKeys(sc, SortKeys(s, sc.rd, sc.list, FrameIdats(sc.rd, sc.list)))

BuiltOrder(s, rd) == OrderOfScan(s, scan_chunks_filtered(s, rd, FrameTest(rd)))

\* a data reference (fdAT, IDAT) stands before every fcTL of the order
DataBeforeEveryFctl(order) == order # << >> /\ order[1].chunktype # fcTL

\* C20: when a data reference comes before every fcTL in the order apng_scan_frames
\* sorted the references into, it returns the ordering error and no frame; frames are
\* returned on success only.
C20_OrphanDataIsOrderingError ==
    [][last'.op = "apng_scan_frames"
          => /\ DataBeforeEveryFctl(BuiltOrder(stream, reader))
                    => last'.kind = "Ordering" /\ last'.frames = << >>
             /\ last'.kind # "Ok" => last'.frames = << >>]_vars

\* apng_scan_frames returned the ordering error on a stream that holds an fcTL and, sorted
\* before it, an IDAT of the static first frame
C20_Witness ==
    /\ last.op = "apng_scan_frames"
    /\ last.kind = "Ordering"
    /\ last.frames = << >>
    /\ reader.first_frame_is_static
    /\ \E i \in 1..Len(last.seen) : IsFctl(last.seen[i])
    /\ \E i \in 1..Len(last.seen) : IsIdat(last.seen[i])

C22_TextWithoutNulDecodes ==
    (/\ last.op = "read_chunk"
     /\ last.arg[1].chunktype = tEXt
     /\ WholeChunk(stream, last.arg[1])
     /\ TrailerMatches(stream, last.arg[1])
     /\ \A i \in 1..Len(PayloadOf(stream, last.arg[1])) : PayloadOf(stream, last.arg[1])[i] # 0)
        => /\ last.kind = "Ok"
           /\ last.value[1].keyword = PayloadOf(stream, last.arg[1])
           /\ last.value[1].string = << >>

(***************************************************************************)
(* PNGDATReader (streams.rs).  In this specification `reader` is the       *)
(* PNGDATReader: dats the list handed to new(), dat_iter the number of     *)
(* references the iterator has yielded, buffer the VecDeque, stream_pos    *)
(* the position of the underlying stream; `output` is every byte the       *)
(* caller's buffers have received so far.                                  *)
(***************************************************************************)
PNGDATReader_new(dats) == [dats |-> dats, dat_iter |-> 0, buffer |-> << >>, stream_pos |-> 8]

\* the `match chunk` of read keeping the sequence number of an fdAT
DatData_WholePayload(chunk) ==
    CASE chunk.type \in {"Idat", "Jdat", "Jdaa"} -> Some(chunk.data)
      [] chunk.type = "Fdat" -> Some(U32ToBe(chunk.sequence_number) \o chunk.frame_data)
      [] OTHER -> None

\* the `match chunk` of read: Some(data), or None for a chunk that is not a DAT chunk
DatData(chunk) ==
    CASE chunk.type \in {"Idat", "Jdat", "Jdaa"} -> Some(chunk.data)
      [] chunk.type = "Fdat" -> Some(chunk.frame_data)
      [] OTHER -> None

\* the `while` loop of read for a caller buffer of n bytes: [rd, kind]
RECURSIVE DatFillLoop(_, _, _)
\* one iteration: `got` is what chunkref.read_chunk(self.stream, None) returned
DatFillStep(s, rd, n, got) ==
    IF got.kind # "Ok"
    THEN [rd |-> [rd EXCEPT !.dat_iter = @ + 1, !.stream_pos = got.pos], kind |-> got.kind]
    ELSE IF DatData(got.value[1]) = None
    THEN [rd |-> [rd EXCEPT !.dat_iter = @ + 1, !.stream_pos = got.pos], kind |-> "NotDat"]
    ELSE DatFillLoop(s, [rd EXCEPT !.dat_iter = @ + 1,
                                   !.stream_pos = got.pos,
                                   !.buffer = @ \o DatData(got.value[1])[1]], n)

DatFillLoop(s, rd, n) ==
    IF Len(rd.buffer) < n /\ Len(rd.dats) - rd.dat_iter > 0
    THEN DatFillStep(s, rd, n, read_chunk(s, rd.dats[rd.dat_iter + 1], None))
    ELSE [rd |-> rd, kind |-> "Ok"]

\* the `for` loop of read: pop up to n bytes into buf
DatDrain(filled, n) ==
    IF filled.kind # "Ok"
    THEN [rd |-> filled.rd, kind |-> filled.kind, len |-> None, buf |-> << >>]
    ELSE [rd |-> [filled.rd EXCEPT
                     !.buffer = SubSeq(@, Min(n, Len(@)) + 1, Len(@))],
          kind |-> "Ok",
          len |-> Some(Min(n, Len(filled.rd.buffer))),
          buf |-> SubSeq(filled.rd.buffer, 1, Min(n, Len(filled.rd.buffer)))]

\* PNGDATReader::read with a buffer of n bytes: [rd, kind, len: Some(usize) on Ok, buf]
PNGDATReader_read(s, rd, n) == DatDrain(DatFillLoop(s, rd, n), n)

\* payload bytes that tell the chunks apart
DatBytes(k, n) == SubSeq([i \in 1..n |-> 16 * k + i], 1, n)

\* the chunks a list may refer to: DAT chunks of every kind with 0..MaxData data bytes,
\* a DAT chunk with a wrong CRC, an fdAT too short for its sequence number, a gAMA
DatChunks ==
    {Chunk(IDAT, DatBytes(1, n)) : n \in 0..MaxData}
        \cup {Chunk(fdAT, U32ToBe(n) \o DatBytes(2, n)) : n \in 0..MaxData}
        \cup {Chunk(JDAT, DatBytes(3, 1)), Chunk(JDAA, DatBytes(4, 2)),
              BadCrcChunk(IDAT, DatBytes(5, 1)), Chunk(fdAT, << 0, 1 >>),
              Chunk(gAMA, U32ToBe(5))}

\* most chunks in a list
MaxDats == 2

\* largest caller buffer
MaxBuf == 3

DatLayouts == UNION {[1..k -> DatChunks] : k \in 1..MaxDats}

\* the reference of the i-th chunk of a layout that follows the signature
LayoutRef(layout, i) ==
    [position |-> 8 + Len(Flatten(SubSeq(layout, 1, i - 1))),
     length |-> Len(layout[i]) - 12,
     chunktype |-> SubSeq(layout[i], 5, 8)]

LayoutRefs(layout) == SubSeq([i \in 1..Len(layout) |-> LayoutRef(layout, i)], 1, Len(layout))

Reverse(q) == SubSeq([i \in 1..Len(q) |-> q[Len(q) + 1 - i]], 1, Len(q))

\* a stream of DAT chunks and a PNGDATReader over their references, in file order or in
\* the opposite order
InitDat ==
    /\ \E layout \in DatLayouts :
         /\ stream = Signature \o Flatten(layout)
         /\ \E dats \in {LayoutRefs(layout), Reverse(LayoutRefs(layout))} :
              reader = PNGDATReader_new(dats)
    /\ refs = {}
    /\ fctl_in_header = FALSE
    /\ decoded = None
    /\ output = << >>
    /\ data_crc = CrcNew
    /\ ops = MaxOps
    /\ last = Returned("PNGDATReader::new", 8, None, "Ok", << >>, None, << >>, << >>)

DatReturns(n, got) ==
    /\ reader' = got.rd
    /\ output' = output \o got.buf
    /\ last' = Returned("PNGDATReader::read", reader.stream_pos, Some(n), got.kind, << >>,
                        got.len, << >>, << >>)
    /\ UNCHANGED << stream, refs, fctl_in_header, ops, decoded, data_crc >>

\* the caller reads until read returns 0 or fails, with buffers of 1..MaxBuf bytes
PngDatRead ==
    /\ last.kind = "Ok"
    /\ last.value # Some(0)
    /\ \E n \in 1..MaxBuf : DatReturns(n, PNGDATReader_read(stream, reader, n))

NextDat == PngDatRead

SpecDat == InitDat /\ [][NextDat]_vars

\* the raw data of the DAT chunk at r: its payload, for an fdAT without the sequence number
RawData(s, r) ==
    IF r.chunktype = fdAT THEN Slice(s, r.position + 12, r.length - 4) ELSE PayloadOf(s, r)

\* the raw data of the first k chunks of dats, in list order
RawDataOf(s, dats, k) == Flatten(SubSeq([i \in 1..Len(dats) |-> RawData(s, dats[i])], 1, k))

\* every chunk the PNGDATReader has taken so far was decoded
NoReadFailed == last.kind = "Ok"

\* C23: as long as no chunk fails to decode, the bytes delivered so far followed by the
\* buffered bytes are the raw data of the chunks taken so far, in list order; read returns
\* 0 only when every listed chunk has been taken and nothing is buffered, and then the
\* bytes delivered are the raw data of all listed chunks; a read before that delivers at
\* least one byte.
C23_DatReaderDeliversConcatenation ==
    NoReadFailed
        => /\ output \o reader.buffer = RawDataOf(stream, reader.dats, reader.dat_iter)
           /\ last.value = Some(0)
                  => /\ reader.dat_iter = Len(reader.dats)
                     /\ reader.buffer = << >>
                     /\ output = RawDataOf(stream, reader.dats, Len(reader.dats))
           /\ (last.op = "PNGDATReader::read" /\ last.value # Some(0))
                  => last.value[1] \in 1..last.arg[1]

\* read returned 0 after delivering, in several reads, the data of two listed chunks in an
\* order that is not the file order, the first of them with empty data
C23_Witness ==
    /\ last.op = "PNGDATReader::read"
    /\ last.kind = "Ok"
    /\ last.value = Some(0)
    /\ Len(reader.dats) = 2
    /\ reader.dats[1].position > reader.dats[2].position
    /\ reader.dats[1].length = 0
    /\ Len(output) = MaxData
    /\ output = RawData(stream, reader.dats[2])

\* the stream begins with a whole 13-byte IHDR whose fields are valid and whose CRC matches
BeginsWithValidIhdr(s) ==
    /\ ChunksOf(s) # << >>
    /\ ChunksOf(s)[1].chunktype = IHDR
    /\ ChunksOf(s)[1].length = 13
    /\ TrailerMatches(s, ChunksOf(s)[1])
    /\ PngColourTypeOk(s[26]) /\ PngCompressionMethodOk(s[27])
    /\ PngFilterMethodOk(s[28]) /\ PngInterlaceMethodOk(s[29])

\* a successful scan_header_chunks as the first call on the reader
FirstHeaderScan ==
    /\ last.op = "scan_header_chunks"
    /\ last.kind = "Ok"
    /\ ops = MaxOps - 1

\* C24: after a successful scan_header_chunks on a stream that begins with a valid IHDR,
\* width, height, bit_depth and colour_type are that IHDR's fields, filetype is Png when
\* no acTL, fcTL or fdAT precedes the first IDAT, and for IHDR, IDAT, IEND the header list
\* is the IHDR reference alone.
C24_HeaderScanFillsMetadata ==
    (FirstHeaderScan /\ BeginsWithValidIhdr(stream))
        => /\ reader.width = U32FromBe(Slice(stream, 16, 4))
           /\ reader.height = U32FromBe(Slice(stream, 20, 4))
           /\ reader.bit_depth = stream[25]
           /\ reader.colour_type = stream[26]
           /\ (\A i \in 1..Len(last.list) : last.list[i].chunktype \notin {acTL, fcTL, fdAT})
                  => reader.filetype = Png
           /\ TypesOf(stream) = << IHDR, IDAT, IEND >> => last.list = << ChunksOf(stream)[1] >>

\* number of IDAT references among the first k references of a list
IdatsAmong(list, k) == Cardinality({i \in 1..k : IsIdat(list[i])})

\* the key C25 gives the i-th reference of the scanned list
StatedKey(s, list, i) ==
    IF IsIdat(list[i]) THEN IdatsAmong(list, i) - 1
    ELSE StoredSequenceNumber(s, list[i]) + IdatsAmong(list, Len(list))

\* the keys apng_scan_frames computes for the references of the scan sc are the stated ones
KeysAsStated(s, sc, keys) ==
    \A i \in 1..Len(sc.list) : keys[i] = Some(StatedKey(s, sc.list, i))

KeysOfScanAsStated(s, sc) ==
    (sc.kind = "Ok" /\ sc.rd.first_frame_is_static)
        => KeysAsStated(s, sc, SortKeys(s, sc.rd, sc.list, FrameIdats(sc.rd, sc.list)))

\* C25: with a static first frame, apng_scan_frames sorts by the keys 0,1,2,... for the
\* IDAT references in file order and (sequence number + number of IDAT references) for
\* every fcTL/fdAT reference.
C25_StaticFrameSortKeys ==
    [][last'.op = "apng_scan_frames"
          => KeysOfScanAsStated(stream, scan_chunks_filtered(stream, reader, FrameTest(reader)))]_vars

\* the indices of the fcTL references of an order, ascending
FctlIndices(order) ==
    LET at == {i \in 1..Len(order) : IsFctl(order[i])}
    IN  [k \in 1..Cardinality(at) |->
            CHOOSE i \in at : Cardinality({j \in at : j < i}) = k - 1]

\* the references of the order after its k-th fcTL and before the next one
DataAfterFctl(order, idx, k) ==
    SubSeq(order, idx[k] + 1, IF k < Len(idx) THEN idx[k + 1] - 1 ELSE Len(order))

\* frames are the groups of the order: one frame per fcTL, holding the fcTL's decoded
\* fields and the data references up to the next fcTL
FramesGroupOrder(s, frames, order) ==
    LET idx == FctlIndices(order)
    IN  /\ Len(frames) = Len(idx)
        /\ \A k \in 1..Len(frames) :
               /\ frames[k].fctl.type = "Fctl"
               /\ frames[k].fctl.sequence_number = StoredSequenceNumber(s, order[idx[k]])
               /\ frames[k].dats = DataAfterFctl(order, idx, k)
               /\ \A i \in 1..Len(frames[k].dats) : ~IsFctl(frames[k].dats[i])
        /\ Flatten([k \in 1..Len(frames) |-> << order[idx[k]] >> \o frames[k].dats]) = order

\* C26: a successful apng_scan_frames returns one frame per scanned fcTL reference, in
\* the sorted order; every collected data reference is in the data list of the nearest
\* fcTL before it in that order and in no other; no data list holds an fcTL; an fcTL
\* without data after it gives a frame with an empty data list.
C26_FramesGroupSortedOrder ==
    [][(last'.op = "apng_scan_frames" /\ last'.kind = "Ok")
          => FramesGroupOrder(stream, last'.frames, BuiltOrder(stream, reader))]_vars

\* apng_scan_frames returned two frames, each with the data that follows its fcTL
C26_Witness ==
    /\ last.op = "apng_scan_frames"
    /\ last.kind = "Ok"
    /\ Len(last.frames) = 2
    /\ Len(last.frames[1].dats) >= 1
    /\ Len(last.frames[2].dats) >= 1
    /\ last.frames[1].dats # last.frames[2].dats

\* the scan state of a reader: cursor, filetype, IHDR fields, first-frame flag
ScanState(rd) ==
    << rd.next_chunk_pos, rd.filetype, rd.ihdr, rd.width, rd.height, rd.bit_depth,
       rd.colour_type, rd.first_frame_is_static >>

\* C27: a scan_next_chunk that returns an error leaves the cursor, the filetype, the IHDR
\* fields and the first-frame flag as they were, and called again from there returns the
\* same error.
C27_FailedScanLeavesState ==
    [][(last'.op = "scan_next_chunk" /\ last'.kind # "Ok")
          => /\ ScanState(reader') = ScanState(reader)
             /\ scan_next_chunk(stream, reader').kind = last'.kind]_vars

\* C28: no operation takes filetype from Apng back to Png or first_frame_is_static from
\* true back to false, and reset_next_chunk_position changes the cursor (to 8) and the
\* in-header flag only.
C28_ApngAndStaticFlagAreSticky ==
    [][/\ reader.filetype = Apng => reader'.filetype = Apng
       /\ reader.first_frame_is_static => reader'.first_frame_is_static
       /\ last'.op = "reset_next_chunk_position"
              => reader' = [reader EXCEPT !.next_chunk_pos = 8, !.in_header = TRUE]]_vars

\* the cursor was reset from further down the file on a reader that had found an APNG
\* with a static first frame and had left the header
C28_Witness ==
    /\ last.op = "reset_next_chunk_position"
    /\ last.start > 8
    /\ reader.next_chunk_pos = 8
    /\ reader.in_header
    /\ reader.filetype = Apng
    /\ reader.first_frame_is_static
    /\ \E r \in refs : IsIdat(r)

(***************************************************************************)
(* The loops of scan_all_chunks, scan_header_chunks and                    *)
(* scan_chunks_filtered, one iteration per step.  `last` is the call in    *)
(* progress: op the method, arg the predicate of a filtered scan, list the *)
(* Vec built so far, kind "Running" until the method returns.              *)
(***************************************************************************)
\* an iteration of scan_all_chunks that stays on the chunk it scanned
AllIteration_Stays(sn, chunks) ==
    IF sn.kind # "Ok" THEN [rd |-> sn.rd, kind |-> sn.kind, list |-> << >>]
    ELSE IF sn.ref[1].chunktype = IEND
    THEN [rd |-> sn.rd, kind |-> "Ok", list |-> Append(chunks, sn.ref[1])]
    ELSE [rd |-> [sn.rd EXCEPT !.next_chunk_pos = sn.ref[1].position],
          kind |-> "Running", list |-> chunks]

\* one iteration of the loop of scan_all_chunks: sn is what scan_next_chunk returned
AllIteration(sn, chunks) ==
    IF sn.kind # "Ok" THEN [rd |-> sn.rd, kind |-> sn.kind, list |-> << >>]
    ELSE IF sn.ref[1].chunktype = IEND
    THEN [rd |-> sn.rd, kind |-> "Ok", list |-> Append(chunks, sn.ref[1])]
    ELSE [rd |-> sn.rd, kind |-> "Running", list |-> Append(chunks, sn.ref[1])]

\* one iteration of the loop of scan_header_chunks
HeaderIteration(sn, chunks) ==
    IF sn.kind # "Ok" THEN [rd |-> sn.rd, kind |-> sn.kind, list |-> << >>]
    ELSE IF sn.ref[1].chunktype = IDAT
    THEN [rd |-> [sn.rd EXCEPT !.next_chunk_pos = sn.ref[1].position],
          kind |-> "Ok", list |-> chunks]
    ELSE [rd |-> sn.rd, kind |-> "Running", list |-> Append(chunks, sn.ref[1])]

\* one iteration of the loop of scan_chunks_filtered
FilteredIteration(sn, test, chunks) ==
    IF sn.kind # "Ok" THEN [rd |-> sn.rd, kind |-> sn.kind, list |-> << >>]
    ELSE [rd |-> sn.rd,
          kind |-> IF sn.ref[1].chunktype = IEND THEN "Ok" ELSE "Running",
          list |-> IF sn.ref[1].chunktype \in test THEN Append(chunks, sn.ref[1]) ELSE chunks]

\* every stream of a still image cut short at any byte after the signature
Cuts(s) == {SubSeq(s, 1, n) : n \in 8..Len(s)}

CutStreams == UNION {Cuts(Signature \o Flatten(layout)) : layout \in StillLayouts}

\* the calls whose loops are followed
LoopCalls ==
    {<< "scan_all_chunks", None >>, << "scan_header_chunks", None >>}
        \cup {<< "scan_chunks_filtered", Some(test) >> : test \in Tests}

\* a scan method has just been called on a fresh reader
InitScan ==
    /\ stream \in Streams \cup CutStreams
    /\ reader = NewReader
    /\ refs = {}
    /\ fctl_in_header = FALSE
    /\ decoded = None
    /\ output = << >>
    /\ data_crc = CrcNew
    /\ ops = MaxOps
    /\ \E call \in LoopCalls :
         last = Returned(call[1], 8, call[2], "Running", << >>, None, << >>, << >>)

\* the iteration of the loop of method op
Iteration(op, arg, sn, chunks) ==
    CASE op = "scan_all_chunks" -> AllIteration(sn, chunks)
      [] op = "scan_header_chunks" -> HeaderIteration(sn, chunks)
      [] OTHER -> FilteredIteration(sn, arg[1], chunks)

Iterated(it) ==
    /\ reader' = it.rd
    /\ last' = [last EXCEPT !.kind = it.kind, !.list = it.list]
    /\ UNCHANGED << stream, refs, fctl_in_header, ops, codec >>

\* the loop body runs once more
ScanIterate ==
    /\ last.kind = "Running"
    /\ \E sn \in {scan_next_chunk(stream, reader)} :
         \E it \in {Iteration(last.op, last.arg, sn, last.list)} : Iterated(it)

NextScan == ScanIterate

\* the method runs on its own thread of control: its loop body is not starved
SpecScan == InitScan /\ [][NextScan]_vars /\ WF_vars(ScanIterate)

\* the 8-byte chunk headers met from position pos on by following the length fields
RECURSIVE HeadersFrom(_, _)
HeadersFrom(s, pos) ==
    IF FromStream(s, pos).kind # "Ok" THEN << >>
    ELSE FromStream(s, pos).ref \o HeadersFrom(s, pos + 12 + FromStream(s, pos).ref[1].length)

\* the type the loop of method op stops at
StopType(op) == IF op = "scan_header_chunks" THEN IDAT ELSE IEND

\* no header met from byte 8 on has the type the method stops at
LacksStop(s, op) ==
    \A i \in 1..Len(HeadersFrom(s, 8)) : HeadersFrom(s, 8)[i].chunktype # StopType(op)

Returns == last.kind # "Running"

\* C29: every scan loop returns; an iteration after which the loop goes on has moved the
\* cursor forward by at least 12 bytes; on a stream without the chunk the loop stops at,
\* the method returns an error, the I/O error with the cursor past the last whole header
\* when every chunk on the way scans.
C29_ScanLoopsTerminate ==
    /\ <>Returns
    /\ [][last'.kind = "Running" => reader'.next_chunk_pos >= reader.next_chunk_pos + 12]_vars
    /\ [](Returns /\ LacksStop(stream, last.op)
              => /\ last.kind # "Ok"
                 /\ last.kind = "Io" => reader.next_chunk_pos + 8 > Len(stream)
                 /\ stream \in CutStreams => last.kind = "Io")

\* scan_all_chunks went through two chunks of a stream cut before its IEND and returned
\* the I/O error at the end of the stream
C29_Witness ==
    /\ last.op = "scan_all_chunks"
    /\ last.kind = "Io"
    /\ Len(HeadersFrom(stream, 8)) = 2
    /\ LacksStop(stream, last.op)
    /\ reader.next_chunk_pos >= Len(stream)
    /\ reader.next_chunk_pos > 8 + 24

(***************************************************************************)
(* JNGFileReader::from_stream (jngreader.rs), one read per step.  In this  *)
(* specification `reader` is the locals of from_stream: where it stands    *)
(* (at), the stream position, the chunk being read (position, length,      *)
(* chunktype) and toread; data_crc is the CRC of the chunk read so far;    *)
(* last.list is all_chunks and last.kind "Running" until it returns.       *)
(***************************************************************************)
JngSignature == << 139, 74, 78, 71, 13, 10, 26, 10 >>

hIST == << 104, 73, 83, 84 >>
pCAL == << 112, 67, 65, 76 >>
sPLT == << 115, 80, 76, 84 >>
fRAc == << 102, 82, 65, 99 >>
gIFg == << 103, 73, 70, 103 >>
gIFx == << 103, 73, 70, 120 >>

\* the chunk types JNGFileReader::from_stream rejects
InvalidForJng(t) ==
    t \in {PLTE, hIST, pCAL, sBIT, sPLT, tRNS, fRAc, gIFg, gIFx, aCTL, fcTL, fdAT}

\* size of `buf` in the payload loop
JngBufSize == 65536

JngLocals(at, pos) ==
    [at |-> at, stream_pos |-> pos, position |-> 0, length |-> 0, chunktype |-> << >>,
     toread |-> 0]

\* from_stream returns: kind is "Ok" or the error
JngReturn(kind, pos) ==
    /\ reader' = [reader EXCEPT !.at = "returned", !.stream_pos = pos]
    /\ last' = [last EXCEPT !.kind = kind]
    /\ UNCHANGED << stream, refs, fctl_in_header, ops, codec >>

\* the signature check
JngCheckSignature ==
    /\ reader.at = "signature"
    /\ IF Avail(stream, 0, 8) < 8 THEN JngReturn("Io", Avail(stream, 0, 8))
       ELSE IF Slice(stream, 0, 8) # JngSignature THEN JngReturn("BadSignature", 8)
       ELSE /\ reader' = [reader EXCEPT !.at = "header", !.stream_pos = 8]
            /\ UNCHANGED << stream, refs, fctl_in_header, last, ops, codec >>

\* top of the loop: position, length, chunk type, the test of the type, the CRC set up
JngReadHeader ==
    /\ reader.at = "header"
    /\ \E fs \in {FromStream(stream, reader.stream_pos)} :
         IF fs.kind # "Ok"
         THEN JngReturn("Io", reader.stream_pos + Avail(stream, reader.stream_pos, 8))
         ELSE IF InvalidForJng(fs.ref[1].chunktype)
         THEN JngReturn("InvalidChunkType", reader.stream_pos + 8)
         ELSE /\ reader' = [at |-> "payload", stream_pos |-> reader.stream_pos + 8,
                            position |-> fs.ref[1].position, length |-> fs.ref[1].length,
                            chunktype |-> fs.ref[1].chunktype, toread |-> fs.ref[1].length]
              /\ data_crc' = CrcConsume(CrcNew, fs.ref[1].chunktype)
              /\ UNCHANGED << stream, refs, fctl_in_header, last, ops, decoded, output >>

\* datastream.read(&mut buf).unwrap_or(0): as many bytes as buf, the `take` limit and
\* the stream allow
JngReadSize ==
    Min(JngBufSize,
        Avail(stream, reader.stream_pos,
              reader.length - (reader.stream_pos - (reader.position + 8))))

\* one iteration of `while toread > 0`; at the end of the stream readsize is 0 and the
\* iteration leaves every local as it was, so the loop runs again from the same state
JngReadPayload ==
    /\ reader.at = "payload"
    /\ reader.toread > 0
    /\ \E readsize \in {JngReadSize} :
         /\ data_crc' = CrcConsume(data_crc, Slice(stream, reader.stream_pos, readsize))
         /\ reader' = [reader EXCEPT !.toread = @ - readsize, !.stream_pos = @ + readsize]
    /\ UNCHANGED << stream, refs, fctl_in_header, last, ops, decoded, output >>

\* the chunk read so far
JngChunk == [position |-> reader.position, length |-> reader.length, chunktype |-> reader.chunktype]

\* after the loop: the trailer, its comparison, the match on the type, the push, the break.
\* The JHDR arm calls PNGChunk::read_chunk, which the sources do not hold: it returns a
\* value or an error.
JngReadTrailer ==
    /\ reader.at = "payload"
    /\ reader.toread = 0
    /\ IF Avail(stream, reader.stream_pos, 4) < 4
       THEN JngReturn("Io", reader.stream_pos + Avail(stream, reader.stream_pos, 4))
       ELSE IF CrcDiffers(Slice(stream, reader.stream_pos, 4), data_crc)
       THEN JngReturn("CrcMismatch", reader.stream_pos + 4)
       ELSE \/ /\ reader.chunktype = JHDR
               /\ \E kind \in {"Io", "InvalidValue"} : JngReturn(kind, reader.stream_pos + 4)
            \/ /\ reader.chunktype = IEND
               /\ reader' = [reader EXCEPT !.at = "returned", !.stream_pos = @ + 4]
               /\ last' = [last EXCEPT !.kind = "Ok", !.list = Append(@, JngChunk)]
               /\ UNCHANGED << stream, refs, fctl_in_header, ops, codec >>
            \/ /\ reader.chunktype # IEND
               /\ reader' = [reader EXCEPT !.at = "header", !.stream_pos = @ + 4]
               /\ last' = [last EXCEPT !.list = Append(@, JngChunk)]
               /\ UNCHANGED << stream, refs, fctl_in_header, ops, codec >>

\* JNG files, whole or with a rejected chunk or a damaged CRC
JngLayouts ==
    {<< Chunk(JHDR, Zeros(16)), Chunk(JDAT, DatBytes(3, n)), IendA >> : n \in 0..MaxData}
        \cup {<< Chunk(JDAT, DatBytes(3, 1)), Chunk(tEXt, << 75, 0, 86 >>), IendA >>,
              << Chunk(PLTE, << 1, 2, 3 >>), IendA >>,
              << BadCrcChunk(JDAT, DatBytes(3, 1)), IendA >>}

\* every JNG file cut short at any byte after the signature, and a PNG file
JngStreams ==
    UNION {Cuts(JngSignature \o Flatten(layout)) : layout \in JngLayouts}
        \cup {Signature \o IendA}

InitJng ==
    /\ stream \in JngStreams
    /\ reader = JngLocals("signature", 0)
    /\ refs = {}
    /\ fctl_in_header = FALSE
    /\ decoded = None
    /\ output = << >>
    /\ data_crc = CrcNew
    /\ ops = MaxOps
    /\ last = Returned("JNGFileReader::from_stream", 0, None, "Running", << >>, None,
                       << >>, << >>)

NextJng ==
    \/ JngCheckSignature
    \/ JngReadHeader
    \/ JngReadPayload
    \/ JngReadTrailer

\* from_stream is straight-line code: whichever read comes next is carried out
SpecJng == InitJng /\ [][NextJng]_vars /\ WF_vars(NextJng)

\* the stream ends inside the payload of the chunk being read
EndsInsidePayload ==
    /\ reader.at = "payload"
    /\ reader.toread > 0
    /\ Len(stream) < reader.position + 8 + reader.length

JngReturned == reader.at = "returned"

\* C30: from_stream returns on every finite stream, and with the I/O error when the
\* stream ends inside the payload of a chunk.
C30_JngFromStreamTerminates ==
    /\ <>JngReturned
    /\ (EndsInsidePayload ~> (JngReturned /\ last.kind = "Io"))

====
